---- MODULE Spec2Model ----
(***************************************************************************)
(* Model of SettingsTree 0.3 (src/SettingsTree/__init__.py): the Tree      *)
(* class over a nested dict of settings nodes.                             *)
(*                                                                         *)
(* A Python str is a sequence of one-character strings.  A Python dict     *)
(* with str keys among 'children', 'value', 'validator', 'path' (a         *)
(* settings node) is a TLA+ record with that subset of fields.  The        *)
(* 'children' dict keeps insertion order: [keys |-> sequence of names,     *)
(* map |-> function from names to nodes].  A Python value is wrapped:      *)
(* [t |-> "int", v |-> n] or [t |-> "dict", v |-> function from names to   *)
(* wrapped values] (dict equality ignores order).  A Leaf object is the    *)
(* record of its attributes.                                               *)
(***************************************************************************)
EXTENDS Integers, Sequences, FiniteSets, TLC

VARIABLES tree, pre, last, leaf

vars == <<tree, pre, last, leaf>>

(***************************************************************************)
(* Bounds                                                                  *)
(***************************************************************************)
MaxVal == 1
MaxPathLen == 5

sep == "/"
Letters == {"a", "b"}
Chars == Letters \cup {sep, "."}
Names == {<<c>> : c \in Letters}
Vals == 0..MaxVal

StrUpTo(n) == UNION {[1..k -> Chars] : k \in 0..n}

(***************************************************************************)
(* Python str primitives used by the path code                             *)
(***************************************************************************)
RECURSIVE SplitAcc(_, _, _)
SplitAcc(s, i, cur) ==
    IF i > Len(s) THEN <<cur>>
    ELSE IF s[i] = sep THEN <<cur>> \o SplitAcc(s, i + 1, <<>>)
    ELSE SplitAcc(s, i + 1, Append(cur, s[i]))

\* s.split('/')
Split(s) == SplitAcc(s, 1, <<>>)

RECURSIVE JoinSep(_)
\* '/'.join(comps)
JoinSep(comps) ==
    IF Len(comps) = 0 THEN <<>>
    ELSE IF Len(comps) = 1 THEN comps[1]
    ELSE comps[1] \o <<sep>> \o JoinSep(Tail(comps))

RECURSIVE FindFrom(_, _)
FindFrom(s, i) ==
    IF i > Len(s) THEN -1
    ELSE IF s[i] = sep THEN i - 1
    ELSE FindFrom(s, i + 1)

\* s.find('/'): 0-based index of the first separator, -1 when there is none
Find(s) == FindFrom(s, 1)

StartsWithSep(s) == Len(s) > 0 /\ s[1] = sep
EndsWithSep(s) == Len(s) > 0 /\ s[Len(s)] = sep

pardir == <<".", ".">>
curdir == <<".">>

RECURSIVE NormComps(_, _, _, _)
NormComps(comps, i, initial_slashes, new_comps) ==
    IF i > Len(comps) THEN new_comps
    ELSE LET comp == comps[i] IN
         IF comp = <<>> \/ comp = curdir
         THEN NormComps(comps, i + 1, initial_slashes, new_comps)
         ELSE IF \/ comp # pardir
                 \/ (initial_slashes = 0 /\ new_comps = <<>>)
                 \/ (new_comps # <<>> /\ new_comps[Len(new_comps)] = pardir)
         THEN NormComps(comps, i + 1, initial_slashes, Append(new_comps, comp))
         ELSE IF new_comps # <<>>
         THEN NormComps(comps, i + 1, initial_slashes,
                        SubSeq(new_comps, 1, Len(new_comps) - 1))
         ELSE NormComps(comps, i + 1, initial_slashes, new_comps)

InitialSlashes(path) ==
    IF ~StartsWithSep(path) THEN 0
    ELSE IF Len(path) >= 2 /\ path[2] = sep /\ ~(Len(path) >= 3 /\ path[3] = sep)
    THEN 2
    ELSE 1

\* posixpath.normpath(path)
normpath(path) ==
    IF path = <<>> THEN curdir
    ELSE LET ini == InitialSlashes(path)
             comps == NormComps(Split(path), 1, ini, <<>>)
             res == [i \in 1..ini |-> sep] \o JoinSep(comps)
         IN IF res = <<>> THEN curdir ELSE res

\* posixpath.join(a, b)
join(a, b) ==
    IF StartsWithSep(b) THEN b
    ELSE IF a = <<>> \/ EndsWithSep(a) THEN a \o b
    ELSE a \o <<sep>> \o b

(***************************************************************************)
(* Python values and dicts                                                 *)
(***************************************************************************)
IntV(n) == [t |-> "int", v |-> n]
NoneV == [t |-> "None", v |-> 0]
DictV(d) == [t |-> "dict", v |-> d]

Has(node, key) == key \in DOMAIN node

\* node[key] = v on a dict
SetKey(node, key, v) ==
    IF key \in DOMAIN node THEN [node EXCEPT ![key] = v]
    ELSE [x \in (DOMAIN node) \cup {key} |-> IF x = key THEN v ELSE node[x]]

EmptyChildren == [keys |-> <<>>, map |-> <<>>]

\* an entry that is not a dict (a number, None, ...)
NotADict(node) == "t" \in DOMAIN node

\* isinstance(children, dict)
IsDict(children) == "keys" \in DOMAIN children

\* list(children.keys())
KeyList(children) == children.keys

Leaf(value, validator) == [value |-> value, validator |-> validator]
Parent(children) == [children |-> children]
Children1(k1, n1) == [keys |-> <<k1>>, map |-> (k1 :> n1)]
Children2(k1, n1, k2, n2) ==
    [keys |-> <<k1, k2>>, map |-> (k1 :> n1) @@ (k2 :> n2)]


(***************************************************************************)
(* Tree.__init__ and Tree._set_paths                                       *)
(***************************************************************************)
RECURSIVE set_paths(_, _)
\* _set_paths(node, rootpath): every child gets 'path' = join(rootpath, name);
\* a child that has 'children' is recursed into with that path plus '/'.
set_paths(node, rootpath) ==
    LET ch == node.children
        withPath(name) == SetKey(ch.map[name], "path", join(rootpath, name))
        done(name) ==
            IF Has(withPath(name), "children")
            THEN set_paths(withPath(name), join(rootpath, name) \o <<sep>>)
            ELSE withPath(name)
    IN SetKey(node, "children",
              [keys |-> ch.keys, map |-> [name \in DOMAIN ch.map |-> done(name)]])

\* Tree(tree) for a dict tree
TreeInit(d) == set_paths(SetKey(d, "path", <<sep>>), <<sep>>)

(***************************************************************************)
(* Tree._get_setting_by_path_node                                          *)
(***************************************************************************)
KeyError == [kind |-> "KeyError"]
IndexError == [kind |-> "IndexError"]
TypeError == [kind |-> "TypeError"]
NodeRes(loc, node) == [kind |-> "node", loc |-> loc, node |-> node]
ValueRes(v) == [kind |-> "value", v |-> v]
KeysRes(ks) == [kind |-> "keys", keys |-> ks]

\* GetByName with a default in place of the KeyError
GetByNameDefault(node, spath) ==
    LET ch == node.children IN
    IF spath \notin DOMAIN ch.map THEN ValueRes([t |-> "None", v |-> 0])
    ELSE IF Has(ch.map[spath], "value") THEN ValueRes(ch.map[spath].value)
    ELSE IF Has(ch.map[spath], "children")
         THEN KeysRes(KeyList(ch.map[spath].children))
         ELSE KeyError

\* the no-separator branch: the child named spath, by value
GetByName(node, spath) ==
    LET ch == node.children IN
    IF spath \notin DOMAIN ch.map THEN KeyError
    ELSE IF Has(ch.map[spath], "value") THEN ValueRes(ch.map[spath].value)
    ELSE IF Has(ch.map[spath], "children")
         THEN KeysRes(KeyList(ch.map[spath].children))
         ELSE KeyError

\* GetNodeByName with the trailing separator ignored
GetNodeByNameValue(node, name, loc) == GetByName(node, name)

\* the trailing-separator branch: the child node itself
GetNodeByName(node, name, loc) ==
    LET ch == node.children IN
    IF name \notin DOMAIN ch.map THEN KeyError
    ELSE NodeRes(Append(loc, name), ch.map[name])

\* path == posixpath.sep: the node itself is returned
GetRootRes(node, loc) == NodeRes(loc, node)

RECURSIVE get_setting_by_path_node(_, _, _)
\* loc is the list of child names from the root down to node: it locates the
\* returned reference and is not part of the Python data.
get_setting_by_path_node(node, path, loc) ==
    IF path = <<sep>> THEN GetRootRes(node, loc)
    ELSE IF NotADict(node) THEN TypeError
    ELSE IF ~Has(node, "children") THEN KeyError
    ELSE IF path = <<>> THEN IndexError
    ELSE IF ~IsDict(node.children) THEN TypeError
    ELSE LET n == normpath(path)
             s1 == IF EndsWithSep(path) THEN n \o <<sep>> ELSE n
             spath == IF s1[1] = sep THEN Tail(s1) ELSE s1
             index == Find(spath)
         IN IF index = -1 THEN GetByName(node, spath)
            ELSE IF index = Len(spath) - 1
            THEN GetNodeByName(node, SubSeq(spath, 1, Len(spath) - 1), loc)
            ELSE LET rootpath == SubSeq(spath, 1, index)
                     subpath == SubSeq(spath, index + 1, Len(spath))
                 IN IF rootpath \in DOMAIN node.children.map
                    THEN get_setting_by_path_node(node.children.map[rootpath],
                                                  subpath, Append(loc, rootpath))
                    ELSE KeyError

\* Tree.get_setting_by_path(path)
get_setting_by_path(t, path) == get_setting_by_path_node(t, path, <<>>)

(***************************************************************************)
(* Validator functions: validator(value, settings, child)                  *)
(***************************************************************************)
ValTrue == [k |-> "True"]
ValRaises == [k |-> "Raises"]
ValLessThan(x) == [k |-> "LessThan", x |-> x]
ValLeqAt(p) == [k |-> "LeqAt", p |-> p]

RECURSIVE NodeAt(_, _)
\* settings['children'][n1]['children'][n2]...
NodeAt(node, loc) ==
    IF loc = <<>> THEN [ok |-> TRUE, node |-> node]
    ELSE IF Has(node, "children") /\ Head(loc) \in DOMAIN node.children.map
    THEN NodeAt(node.children.map[Head(loc)], Tail(loc))
    ELSE [ok |-> FALSE]

\* "True", "False" or "Raise"
CallValidator(validator, value, settings, child) ==
    CASE validator.k = "True" -> "True"
      [] validator.k = "Raises" -> "Raise"
      [] validator.k = "LessThan" ->
            IF value.t # "int" THEN "Raise"
            ELSE IF value.v < validator.x THEN "True" ELSE "False"
      [] validator.k = "LeqAt" ->
            LET other == NodeAt(settings, validator.p) IN
            IF ~other.ok THEN "Raise"
            ELSE IF ~Has(other.node, "value") THEN "Raise"
            ELSE IF value.t # "int" \/ other.node.value.t # "int" THEN "Raise"
            ELSE IF value.v <= other.node.value.v THEN "True" ELSE "False"

(***************************************************************************)
(* Tree._find_invalids_node, find_invalids, check_values                   *)
(***************************************************************************)
\* The settings argument the validators get: self._tree
ValidatorSettings(self_tree, node) == self_tree

\* LeafInvalids without the "except: return [node['path']]": a validator that
\* raises reports nothing
LeafInvalidsNoCatch(self_tree, node) ==
    IF ~Has(node, "value") \/ ~Has(node, "validator") \/ Has(node, "children")
    THEN <<node.path>>
    ELSE IF CallValidator(node.validator, node.value,
                          ValidatorSettings(self_tree, node), node) = "False"
    THEN <<node.path>>
    ELSE <<>>

\* a setting node: [] when valid, [node['path']] otherwise
LeafInvalids(self_tree, node) ==
    IF ~Has(node, "value") \/ ~Has(node, "validator") \/ Has(node, "children")
    THEN <<node.path>>
    ELSE IF CallValidator(node.validator, node.value,
                          ValidatorSettings(self_tree, node), node) # "True"
    THEN <<node.path>>
    ELSE <<>>

\* path reported for a child entry that is not a dict with a 'path'
BadChildPath(node, k) == node.path \o k

RECURSIVE find_invalids_node(_, _)
RECURSIVE InvalidsOver(_, _, _)
InvalidsOver(self_tree, node, i) ==
    IF i > Len(node.children.keys) THEN <<>>
    ELSE LET k == node.children.keys[i]
             v == node.children.map[k]
         IN (IF ~Has(v, "path") THEN <<BadChildPath(node, k)>>
             ELSE find_invalids_node(self_tree, v))
            \o InvalidsOver(self_tree, node, i + 1)

\* _find_invalids_node(node) for a dict node, self_tree being self._tree
find_invalids_node(self_tree, node) ==
    IF Has(node, "children")
    THEN IF ~IsDict(node.children) THEN <<node.path>>
         ELSE InvalidsOver(self_tree, node, 1)
    ELSE LeafInvalids(self_tree, node)

\* _find_invalids_node(path) for a str path
find_invalids_path(self_tree, path) ==
    LET p == IF EndsWithSep(path) THEN path ELSE path \o <<sep>>
        r == get_setting_by_path(self_tree, p)
    IN IF r.kind # "node" THEN r
       ELSE IF NotADict(r.node) THEN TypeError
       ELSE [kind |-> "list", paths |-> find_invalids_node(self_tree, r.node)]

\* Tree.check_values() with the default path '/'
check_values(self_tree) ==
    Len(find_invalids_path(self_tree, <<sep>>).paths) = 0

(***************************************************************************)
(* Tree._extract_values_node and Tree._set_values_node                     *)
(***************************************************************************)
RECURSIVE ExtractRaises(_)
\* v['value'] raises KeyError for a non-parent child without 'value'
ExtractRaises(node) ==
    \E k \in DOMAIN node.children.map :
        LET v == node.children.map[k] IN
        IF Has(v, "children") THEN ExtractRaises(v) ELSE ~Has(v, "value")

RECURSIVE extract_values_node_shallow(_)
\* extract_values_node without the recursion into a parent
extract_values_node_shallow(node) ==
    [k \in DOMAIN node.children.map |->
        LET v == node.children.map[k] IN
        IF Has(v, "children") THEN DictV(<<>>) ELSE v.value]

RECURSIVE extract_values_node(_)
extract_values_node(node) ==
    [k \in DOMAIN node.children.map |->
        LET v == node.children.map[k] IN
        IF Has(v, "children") THEN DictV(extract_values_node(v)) ELSE v.value]

\* Tree.extract_values()
extract_values(self_tree) ==
    IF ExtractRaises(self_tree) THEN KeyError
    ELSE [kind |-> "dict", v |-> extract_values_node(self_tree)]

\* the children of node that the loop does not skip
Addressed(node, values) == {k \in DOMAIN node.children.map : k \in DOMAIN values}

\* StagedValue with the whole dict in place of its element
StagedValueWhole(values, k) == DictV(values)

\* val = values[k]
StagedValue(values, k) == values[k]

RECURSIVE set_values_node_creating(_, _, _, _)
\* set_values_node with a setting created for each key that names no child
set_values_node_creating(node, values, force, self_tree) ==
    LET ch == node.children
        missing == {k \in DOMAIN values : k \notin DOMAIN ch.map}
        new(k) ==
            IF k \in missing THEN [value |-> values[k]]
            ELSE LET sv == ch.map[k] IN
            IF k \notin DOMAIN values THEN sv
            ELSE IF Has(sv, "children")
            THEN IF values[k].t = "dict"
                 THEN set_values_node_creating(sv, values[k].v, force, self_tree)
                 ELSE sv
            ELSE SetKey(sv, "value", values[k])
    IN SetKey(node, "children",
              [keys |-> ch.keys,
               map |-> [k \in (DOMAIN ch.map) \cup missing |-> new(k)]])

RECURSIVE set_values_node(_, _, _, _)
\* _set_values_node(node, values, force); self_tree is self._tree, read only
\* by the validator call of the non-forced branch.
set_values_node(node, values, force, self_tree) ==
    LET ch == node.children
        new(k) ==
            LET sv == ch.map[k] IN
            IF k \notin Addressed(node, values) THEN sv
            ELSE IF Has(sv, "children")
            THEN IF values[k].t = "dict"
                 THEN set_values_node(sv, values[k].v, force, self_tree)
                 ELSE sv
            ELSE IF force \/ CallValidator(sv.validator, StagedValue(values, k),
                                           self_tree, sv) = "True"
            THEN SetKey(sv, "value", StagedValue(values, k))
            ELSE sv
    IN SetKey(node, "children",
              [keys |-> ch.keys, map |-> [k \in DOMAIN ch.map |-> new(k)]])


(***************************************************************************)
(* Tree.set_values                                                         *)
(***************************************************************************)
\* Commits with the check of the validity dropped
CommitsAlways(validity, force) == TRUE

\* Commits with force ignored
CommitsOnlyValid(validity, force) == validity

\* "if validity or force": whether the values are written to the live tree
Commits(validity, force) == validity \/ force

\* [tree |-> the live tree after the call, ret |-> the returned validity]
set_values(self_tree, values, force) ==
    LET tree_copy == set_values_node(self_tree, values, TRUE, self_tree)
        invalids == find_invalids_node(self_tree, tree_copy)
        validity == (0 = Len(invalids))
    IN [tree |-> IF Commits(validity, force)
                 THEN set_values_node(self_tree, values, TRUE, self_tree)
                 ELSE self_tree,
        ret |-> validity]

(***************************************************************************)
(* Tree.set_setting_by_path and Tree.__setitem__                           *)
(***************************************************************************)
RECURSIVE ReplaceAt(_, _, _)
\* the tree after an assignment through the node reference located by loc
ReplaceAt(node, loc, new) ==
    IF loc = <<>> THEN new
    ELSE SetKey(node, "children",
                [keys |-> node.children.keys,
                 map |-> [k \in DOMAIN node.children.map |->
                            IF k = Head(loc)
                            THEN ReplaceAt(node.children.map[k], Tail(loc), new)
                            ELSE node.children.map[k]]])

\* Restores with the old value never written back
RestoresNever(force) == FALSE

\* "if not force: node['value'] = old_value"
Restores(force) == ~force

\* SetAndCheck with only the validator of the written setting consulted
SetAndCheckOwn(self_tree, r, value, force) ==
    IF CallValidator(r.node.validator, value,
                     ReplaceAt(self_tree, r.loc, SetKey(r.node, "value", value)),
                     r.node) = "True"
    THEN [tree |-> ReplaceAt(self_tree, r.loc, SetKey(r.node, "value", value)),
          exc |-> "none", ret |-> TRUE]
    ELSE [tree |-> IF Restores(force)
                   THEN ReplaceAt(self_tree, r.loc,
                                  SetKey(r.node, "value", r.node.value))
                   ELSE ReplaceAt(self_tree, r.loc,
                                  SetKey(r.node, "value", value)),
          exc |-> "none", ret |-> FALSE]

\* lines 856-862: the value is written through the reference r, the live tree
\* is checked, and the old value is written back when invalid and not forced
SetAndCheck(self_tree, r, value, force) ==
    IF check_values(ReplaceAt(self_tree, r.loc, SetKey(r.node, "value", value)))
    THEN [tree |-> ReplaceAt(self_tree, r.loc, SetKey(r.node, "value", value)),
          exc |-> "none", ret |-> TRUE]
    ELSE [tree |-> IF Restores(force)
                   THEN ReplaceAt(self_tree, r.loc,
                                  SetKey(r.node, "value", r.node.value))
                   ELSE ReplaceAt(self_tree, r.loc,
                                  SetKey(r.node, "value", value)),
          exc |-> "none", ret |-> FALSE]

\* SetAtNode without the "'value' not in node" test
SetAtNodeUnchecked(self_tree, r, value, force) ==
    IF r.kind # "node"
    THEN [tree |-> self_tree, exc |-> r.kind, ret |-> FALSE]
    ELSE [tree |-> ReplaceAt(self_tree, r.loc, SetKey(r.node, "value", value)),
          exc |-> "none",
          ret |-> check_values(ReplaceAt(self_tree, r.loc,
                                         SetKey(r.node, "value", value)))]

\* lines 843-851: r is what _get_setting_by_path_node returned
SetAtNode(self_tree, r, value, force) ==
    IF r.kind # "node"
    THEN [tree |-> self_tree, exc |-> r.kind, ret |-> FALSE]
    ELSE IF ~Has(r.node, "value")
    THEN [tree |-> self_tree, exc |-> "KeyError", ret |-> FALSE]
    ELSE SetAndCheck(self_tree, r, value, force)

\* the path with a trailing separator (lines 837-840)
SettingPath(path) == IF ~EndsWithSep(path) THEN path \o <<sep>> ELSE path

\* [tree, exc, ret]
set_setting_by_path(self_tree, path, value, force) ==
    SetAtNode(self_tree, get_setting_by_path(self_tree, SettingPath(path)),
              value, force)

(***************************************************************************)
(* list_children, list_all, type_path, diff                                *)
(***************************************************************************)
\* ord(c) of the characters of a path
CharCode(c) ==
    CASE c = "." -> 46 [] c = "/" -> 47 [] c = "a" -> 97 [] c = "b" -> 98

RECURSIVE StrLess(_, _)
\* the order of str that list.sort() uses
StrLess(s, t) ==
    IF t = <<>> THEN FALSE
    ELSE IF s = <<>> THEN TRUE
    ELSE IF Head(s) # Head(t) THEN CharCode(Head(s)) < CharCode(Head(t))
    ELSE StrLess(Tail(s), Tail(t))

RECURSIVE Insert(_, _)
Insert(sorted, x) ==
    IF sorted = <<>> THEN <<x>>
    ELSE IF StrLess(x, Head(sorted)) THEN <<x>> \o sorted
    ELSE <<Head(sorted)>> \o Insert(Tail(sorted), x)

RECURSIVE Sort(_)
\* list.sort()
Sort(l) == IF l = <<>> THEN <<>> ELSE Insert(Sort(Tail(l)), Head(l))

RECURSIVE SortedList(_)
\* list(a set) followed by sort()
SortedList(S) ==
    IF S = {} THEN <<>>
    ELSE Insert(SortedList(S \ {CHOOSE x \in S : TRUE}), CHOOSE x \in S : TRUE)

ListRes(l) == [kind |-> "list", paths |-> l]

\* what list_children does with what get_setting_by_path returned
ChildrenOf(r) ==
    IF r.kind \in {"KeyError", "IndexError"} THEN r
    ELSE IF r.kind = "node" /\ Has(r.node, "children")
    THEN ListRes(KeyList(r.node.children))
    ELSE IF r.kind = "value" /\ r.v.t = "node" /\ Has(r.v.node, "children")
    THEN ListRes(KeyList(r.v.node.children))
    ELSE ListRes(<<>>)

\* Tree.list_children(path)
list_children(self_tree, path) == ChildrenOf(get_setting_by_path(self_tree, path))

\* what type_path does with the node it got
TypeOfNode(r) ==
    IF r.kind # "node" THEN r
    ELSE IF Has(r.node, "children") /\ ~Has(r.node, "value")
    THEN [kind |-> "type", tp |-> "parent"]
    ELSE IF ~Has(r.node, "children") /\ Has(r.node, "value")
    THEN [kind |-> "type", tp |-> "setting"]
    ELSE [kind |-> "type", tp |-> "neither"]

\* Tree.type_path(path)
type_path(self_tree, path) ==
    IF path = <<>> THEN IndexError
    ELSE TypeOfNode(get_setting_by_path(self_tree, SettingPath(path)))

\* [posixpath.join(path, x) for x in names]
JoinAll(path, names) == [i \in 1..Len(names) |-> join(path, names[i])]

RECURSIVE Concat(_)
Concat(ls) == IF ls = <<>> THEN <<>> ELSE Head(ls) \o Concat(Tail(ls))

\* the path list_all recurses with for a direct child: child['path']
RecursePath(child) == child.path

\* child = self.get_setting_by_path(children[i] + posixpath.sep), for every i
ChildNodes(self_tree, children) ==
    [i \in 1..Len(children) |->
        get_setting_by_path(self_tree, children[i] \o <<sep>>)]

\* the loop over the direct children, the filter and the sort; nodes and subs
\* are what the gets and the recursive calls of the loop returned
ListAllOf(self_tree, children, nodes, subs, tp) ==
    IF \E i \in 1..Len(children) :
          nodes[i].kind # "node" \/ ~Has(nodes[i].node, "path")
          \/ subs[i].kind # "list"
    THEN KeyError
    ELSE IF tp \in {"parent", "setting", "neither"}
    THEN ListRes(Sort(SelectSeq(
            children \o Concat([i \in 1..Len(children) |-> subs[i].paths]),
            LAMBDA x : type_path(self_tree, x) = [kind |-> "type", tp |-> tp])))
    ELSE ListRes(Sort(
            children \o Concat([i \in 1..Len(children) |-> subs[i].paths])))

RECURSIVE list_all(_, _, _)
\* self.list_all(child['path']) for every child the loop got
SubLists(self_tree, nodes) ==
    [i \in 1..Len(nodes) |->
        IF nodes[i].kind = "node" /\ Has(nodes[i].node, "path")
        THEN list_all(self_tree, RecursePath(nodes[i].node), "all")
        ELSE KeyError]

\* list_all once list_children returned
ListAllFrom(self_tree, path, tp, names) ==
    IF names.kind # "list" THEN names
    ELSE ListAllOf(self_tree, JoinAll(path, names.paths),
                   ChildNodes(self_tree, JoinAll(path, names.paths)),
                   SubLists(self_tree,
                            ChildNodes(self_tree, JoinAll(path, names.paths))),
                   tp)

\* Tree.list_all(path, tp)
list_all(self_tree, path, tp) ==
    ListAllFrom(self_tree, path, tp, list_children(self_tree, path))

Range(l) == {l[i] : i \in 1..Len(l)}

\* in_sio_only computed like in_self_only
InSioOnlyAsSelf(children, sio_children) == children \ sio_children

\* "list(sio_children - children)"
InSioOnly(children, sio_children) == sio_children \ children

\* what diff does with the two lists of setting paths
DiffOf(self_tree, sio, mine, theirs) ==
    IF mine.kind # "list" THEN mine
    ELSE IF theirs.kind # "list" THEN theirs
    ELSE [kind |-> "tuple",
          different |-> SelectSeq(
              SortedList(Range(mine.paths) \cap Range(theirs.paths)),
              LAMBDA x : get_setting_by_path(self_tree, x)
                            # get_setting_by_path(sio, x)),
          in_self_only |-> SortedList(Range(mine.paths) \ Range(theirs.paths)),
          in_sio_only |-> SortedList(InSioOnly(Range(mine.paths),
                                               Range(theirs.paths)))]

\* Tree.diff(sio), sio being the _tree of the other Tree
diff(self_tree, sio) ==
    DiffOf(self_tree, sio, list_all(self_tree, <<sep>>, "setting"),
           list_all(sio, <<sep>>, "setting"))

\* Tree.find_invalids(path)
find_invalids(self_tree, path) ==
    IF path = <<>> THEN IndexError ELSE find_invalids_path(self_tree, path)

\* "0 == len(...)" of what find_invalids returned
NoInvalids(r) ==
    IF r.kind # "list" THEN r ELSE [kind |-> "bool", v |-> Len(r.paths) = 0]

\* Tree.check_values(path)
check_values_path(self_tree, path) == NoInvalids(find_invalids(self_tree, path))

(***************************************************************************)
(* delete by path.  Tree has no deletion in this version of the source;    *)
(* the operation follows the path resolution algorithm of the              *)
(* specification document: a path that resolves to the root is rejected,   *)
(* the head must exist, the last head is removed.                          *)
(***************************************************************************)
RemoveKey(children, k) ==
    [keys |-> SelectSeq(children.keys, LAMBDA x : x # k),
     map |-> [x \in DOMAIN children.map \ {k} |-> children.map[x]]]

RECURSIVE DeleteAt(_, _)
\* [ok, node]: node without the entry that the names comps lead to
DeleteAt(node, comps) ==
    IF ~Has(node, "children") \/ Head(comps) \notin DOMAIN node.children.map
    THEN [ok |-> FALSE, node |-> node]
    ELSE IF Len(comps) = 1
    THEN [ok |-> TRUE,
          node |-> SetKey(node, "children", RemoveKey(node.children, Head(comps)))]
    ELSE [ok |-> DeleteAt(node.children.map[Head(comps)], Tail(comps)).ok,
          node |-> SetKey(node, "children",
                     [keys |-> node.children.keys,
                      map |-> [x \in DOMAIN node.children.map |->
                                 IF x = Head(comps)
                                 THEN DeleteAt(node.children.map[x],
                                               Tail(comps)).node
                                 ELSE node.children.map[x]]])]

\* the names left of a path once normalized and split on the separators
RelativeNames(path) ==
    SelectSeq(Split(normpath(path)), LAMBDA c : c # <<>>)

\* [tree, exc]
delete_setting_by_path(self_tree, path) ==
    IF path = <<>> \/ RelativeNames(path) = <<>>
    THEN [tree |-> self_tree, exc |-> "KeyError"]
    ELSE IF DeleteAt(self_tree, RelativeNames(path)).ok
    THEN [tree |-> DeleteAt(self_tree, RelativeNames(path)).node, exc |-> "none"]
    ELSE [tree |-> self_tree, exc |-> "KeyError"]

(***************************************************************************)
(* class Leaf                                                              *)
(***************************************************************************)
\* a type object (int, str, type) and a tuple
TypeV(name) == [t |-> "type", name |-> name]
TupleV(items) == [t |-> "tuple", items |-> items]
StrV(s) == [t |-> "str", s |-> s]

\* a stored simple validator: (name, parameters)
V1(val, params) == [val |-> val, params |-> params]

\* "x in tuple"
InTuple(x, tuple) == \E i \in 1..Len(tuple.items) : tuple.items[i] = x

\* the valid_value_types setter: None, a type, or an iterable of types
StoredTypes(value2) ==
    IF value2.t = "None" THEN NoneV
    ELSE IF value2.t = "type" THEN TupleV(<<value2>>)
    ELSE value2

\* Leaf.__init__ without **keywords: the attributes as the setters store them
LeafInit(value, types, allowed, forbidden, validators, function) ==
    [value |-> value,
     valid_value_types |-> StoredTypes(types),
     allowed_values |-> allowed,
     forbidden_values |-> forbidden,
     validators |-> validators,
     validator_function |-> function]

\* Compare with "<=" and ">=" taken as "<" and ">"
CompareStrict(op, v, x, py) ==
    IF v.t = "int"
    THEN IF (CASE op = "<" -> v.v < x [] op = ">" -> v.v > x
               [] op = "<=" -> v.v < x [] op = ">=" -> v.v > x)
         THEN "True" ELSE "False"
    ELSE IF py = 3 THEN "Raise"
    ELSE IF op \in {">", ">="} THEN "True" ELSE "False"

\* "v < x", "v > x", ... of a value and a number: "True", "False", or "Raise"
\* where Python 3 raises TypeError for a value that is not a number
\* (Python 2 orders numbers before every other object)
Compare(op, v, x, py) ==
    IF v.t = "int"
    THEN IF (CASE op = "<" -> v.v < x [] op = ">" -> v.v > x
               [] op = "<=" -> v.v <= x [] op = ">=" -> v.v >= x)
         THEN "True" ELSE "False"
    ELSE IF py = 3 THEN "Raise"
    ELSE IF op \in {">", ">="} THEN "True" ELSE "False"

Min(x, y) == IF x <= y THEN x ELSE y
Max(x, y) == IF x >= y THEN x ELSE y

\* SimpleValidator with the two bounds taken in the order given, not as
\* min(params) and max(params)
SimpleValidatorAsGiven(val, v, params, py) ==
    CASE val = "GreaterThan" -> Compare(">", v, params, py)
      [] val = "LessThan" -> Compare("<", v, params, py)
      [] val = "GreaterThanOrEqualTo" -> Compare(">=", v, params, py)
      [] val = "LessThanOrEqualTo" -> Compare("<=", v, params, py)
      [] val = "NotEqual" ->
            IF v.t = "int" /\ v.v = params THEN "False" ELSE "True"
      [] val = "Between" ->
            IF Compare(">=", v, params[1], py) # "True"
            THEN Compare(">=", v, params[1], py)
            ELSE Compare("<=", v, params[2], py)
      [] val = "NotBetween" ->
            IF Compare("<=", v, params[1], py) # "False"
            THEN Compare("<=", v, params[1], py)
            ELSE Compare(">=", v, params[2], py)

\* vals[val](self._value, params): "True", "False" or "Raise"
SimpleValidator(val, v, params, py) ==
    CASE val = "GreaterThan" -> Compare(">", v, params, py)
      [] val = "LessThan" -> Compare("<", v, params, py)
      [] val = "GreaterThanOrEqualTo" -> Compare(">=", v, params, py)
      [] val = "LessThanOrEqualTo" -> Compare("<=", v, params, py)
      [] val = "NotEqual" ->
            IF v.t = "int" /\ v.v = params THEN "False" ELSE "True"
      [] val = "Between" ->
            IF Compare(">=", v, Min(params[1], params[2]), py) # "True"
            THEN Compare(">=", v, Min(params[1], params[2]), py)
            ELSE Compare("<=", v, Max(params[1], params[2]), py)
      [] val = "NotBetween" ->
            IF Compare("<=", v, Min(params[1], params[2]), py) # "False"
            THEN Compare("<=", v, Min(params[1], params[2]), py)
            ELSE Compare(">=", v, Max(params[1], params[2]), py)

RECURSIVE SimpleValidators(_, _, _, _)
\* the loop over self._validators from the i-th on: "True" when all pass,
\* "False" at the first that fails, "Raise" at the first that raises
SimpleValidators(validators, i, v, py) ==
    IF i > Len(validators.items) THEN "True"
    ELSE IF SimpleValidator(validators.items[i].val, v,
                            validators.items[i].params, py) # "True"
    THEN SimpleValidator(validators.items[i].val, v,
                         validators.items[i].params, py)
    ELSE SimpleValidators(validators, i + 1, v, py)

\* validator functions: validator_function(value, all_settings)
FnTrue == [k |-> "True"]
FnFalse == [k |-> "False"]
FnRaises == [k |-> "Raises"]
FnEqualSetting(path) == [k |-> "EqualSetting", path |-> path]
\* lambda y, z, w: True
FnThreeArgs == [k |-> "ThreeArgs"]

\* "True", "False" or "Raise"
CallFunction(fn, value, all_settings) ==
    CASE fn.k = "True" -> "True"
      [] fn.k = "False" -> "False"
      [] fn.k = "Raises" -> "Raise"
      [] fn.k = "ThreeArgs" -> "Raise"
      [] fn.k = "EqualSetting" ->
            IF fn.path \notin DOMAIN all_settings THEN "Raise"
            ELSE IF value = all_settings[fn.path] THEN "True" ELSE "False"

BoolRes(b) == [kind |-> "bool", v |-> b]

\* the type test as the source writes it: the value itself is looked up in
\* the tuple of types
TypeCheckFails(self) ==
    self.valid_value_types.t # "None"
        /\ ~InTuple(self.value, self.valid_value_types)

\* the custom validator, lines 450-459
CustomCheck(self, all_settings) ==
    IF self.validator_function.t # "None"
    THEN BoolRes(CallFunction(self.validator_function.fn, self.value,
                              all_settings) = "True")
    ELSE BoolRes(TRUE)

\* the simple validators, lines 445-448, then the custom validator
SimpleChecks(self, all_settings, passed) ==
    IF passed = "Raise" THEN TypeError
    ELSE IF passed = "False" THEN BoolRes(FALSE)
    ELSE CustomCheck(self, all_settings)

\* is_valid without the test of forbidden_values
is_valid_allowing(self, all_settings, py) ==
    IF TypeCheckFails(self) THEN BoolRes(FALSE)
    ELSE IF self.allowed_values.t # "None"
            /\ ~InTuple(self.value, self.allowed_values)
    THEN BoolRes(FALSE)
    ELSE SimpleChecks(self, all_settings,
                      IF self.validators.t # "None"
                      THEN SimpleValidators(self.validators, 1, self.value, py)
                      ELSE "True")

\* Leaf.is_valid(all_settings) under Python py
is_valid(self, all_settings, py) ==
    IF TypeCheckFails(self) THEN BoolRes(FALSE)
    ELSE IF self.allowed_values.t # "None"
            /\ ~InTuple(self.value, self.allowed_values)
    THEN BoolRes(FALSE)
    ELSE IF self.forbidden_values.t # "None"
            /\ InTuple(self.value, self.forbidden_values)
    THEN BoolRes(FALSE)
    ELSE SimpleChecks(self, all_settings,
                      IF self.validators.t # "None"
                      THEN SimpleValidators(self.validators, 1, self.value, py)
                      ELSE "True")

(***************************************************************************)
(* The setters of the constraints of a Leaf                                *)
(***************************************************************************)
\* isinstance(x, collections.Iterable)
IsIterable(x) == x.t \in {"tuple", "str", "dict"}

\* len(x) of an iterable
PyLen(x) ==
    CASE x.t = "tuple" -> Len(x.items)
      [] x.t = "str" -> Len(x.s)
      [] x.t = "dict" -> Cardinality(DOMAIN x.v)

\* x[i] of a sequence (a tuple, a list or a str), i counted from 0
Item(x, i) ==
    CASE x.t = "tuple" -> x.items[i + 1]
      [] x.t = "str" -> StrV(SubSeq(x.s, i + 1, i + 1))

\* "for v in x" over a sequence
Elements(x) ==
    CASE x.t = "tuple" -> x.items
      [] x.t = "str" -> [i \in 1..Len(x.s) |-> StrV(SubSeq(x.s, i, i))]

\* isinstance(x, numbers.Number)
IsNumber(x) == x.t = "int"

\* [leaf |-> the leaf after the assignment, exc |-> the exception raised]
SetRes(l, exc) == [leaf |-> l, exc |-> exc]

\* Leaf.valid_value_types = value2
set_valid_value_types(self, value2) ==
    IF value2.t \in {"None", "type"}
    THEN SetRes([self EXCEPT !.valid_value_types = StoredTypes(value2)], "none")
    ELSE IF IsIterable(value2)
    THEN IF \E i \in 1..PyLen(value2) : Elements(value2)[i].t # "type"
         THEN SetRes(self, "TypeError")
         ELSE SetRes([self EXCEPT
                         !.valid_value_types = TupleV(Elements(value2))], "none")
    ELSE SetRes(self, "TypeError")

\* Leaf.allowed_values = value2
set_allowed_values(self, value2) ==
    IF value2.t = "None"
    THEN SetRes([self EXCEPT !.allowed_values = NoneV], "none")
    ELSE IF IsIterable(value2)
    THEN SetRes([self EXCEPT !.allowed_values = TupleV(Elements(value2))], "none")
    ELSE SetRes(self, "TypeError")

\* Leaf.forbidden_values = value2
set_forbidden_values(self, value2) ==
    IF value2.t = "None"
    THEN SetRes([self EXCEPT !.forbidden_values = NoneV], "none")
    ELSE IF IsIterable(value2)
    THEN SetRes([self EXCEPT !.forbidden_values = TupleV(Elements(value2))],
                "none")
    ELSE SetRes(self, "TypeError")

\* Leaf.available_validators(): the names and their numbers of parameters
available_validators ==
    [names |-> <<"GreaterThan", "GreaterThanOrEqualTo", "LessThan",
                 "LessThanOrEqualTo", "Between", "NotBetween", "NotEqual">>,
     nparams |-> <<1, 1, 1, 1, 2, 2, 1>>]

\* "x in avail_vals"
Available(x) ==
    x.t = "str" /\ \E i \in 1..Len(available_validators.names) :
                       available_validators.names[i] = x.s

\* nparams[avail_vals.index(name)]
NParams(name) ==
    available_validators.nparams[
        CHOOSE i \in 1..Len(available_validators.names) :
            available_validators.names[i] = name]

\* lines 307-316: the exception raised for the parameter p of a validator of
\* n parameters, or "none"; p[0] of a dict without the key 0 is a KeyError
ParamError(n, p) ==
    IF n = 1 THEN (IF ~IsNumber(p) THEN "TypeError" ELSE "none")
    ELSE IF ~IsIterable(p) THEN "TypeError"
    ELSE IF PyLen(p) # 2 THEN "TypeError"
    ELSE IF p.t = "dict" THEN "KeyError"
    ELSE IF ~IsNumber(Item(p, 0)) \/ ~IsNumber(Item(p, 1)) THEN "TypeError"
    ELSE "none"

\* lines 300-316: the exception raised for the entry v, or "none"; v[0] of a
\* dict without the key 0 is a KeyError
EntryError(v) ==
    IF ~IsIterable(v) THEN "TypeError"
    ELSE IF PyLen(v) # 2 THEN "TypeError"
    ELSE IF v.t = "dict" THEN "KeyError"
    ELSE IF ~Available(Item(v, 0)) THEN "TypeError"
    ELSE ParamError(NParams(Item(v, 0).s), Item(v, 1))

RECURSIVE FirstError(_, _)
\* the loop of line 299 from the i-th entry on
FirstError(entries, i) ==
    IF i > Len(entries) THEN "none"
    ELSE IF EntryError(entries[i]) # "none" THEN EntryError(entries[i])
    ELSE FirstError(entries, i + 1)

\* (v[0], copy.deepcopy(v[1])) in the form is_valid reads
StoredValidator(v) ==
    V1(Item(v, 0).s,
       IF Item(v, 1).t = "int" THEN Item(v, 1).v
       ELSE <<Item(Item(v, 1), 0).v, Item(Item(v, 1), 1).v>>)

\* the entries checked, lines 317-319
StoreValidators(self, entries, error) ==
    IF error # "none" THEN SetRes(self, error)
    ELSE SetRes([self EXCEPT
                    !.validators =
                        TupleV([i \in 1..Len(entries) |->
                                   StoredValidator(entries[i])])], "none")

\* Leaf.validators = value2
set_validators(self, value2) ==
    IF value2.t = "None" THEN SetRes([self EXCEPT !.validators = NoneV], "none")
    ELSE IF ~IsIterable(value2) THEN SetRes(self, "TypeError")
    ELSE StoreValidators(self, Elements(value2),
                         FirstError(Elements(value2), 1))

\* inspect.isfunction(x)
IsFunction(x) == x.t = "function"

\* Leaf.validator_function = value2
set_validator_function(self, value2) ==
    IF value2.t = "None"
    THEN SetRes([self EXCEPT !.validator_function = NoneV], "none")
    ELSE IF IsFunction(value2)
    THEN SetRes([self EXCEPT !.validator_function = value2], "none")
    ELSE SetRes(self, "TypeError")

\* the setters of __init__ one after the other, r being the result so far
ThenSet(r, next) == IF r.exc # "none" THEN r ELSE next

\* Leaf(value, valid_value_types, allowed_values, forbidden_values,
\* validators, validator_function): lines 118-133
LeafNew(value, types, allowed, forbidden, validators, function) ==
    LET blank == LeafInit(value, NoneV, NoneV, NoneV, NoneV, NoneV)
        r1 == set_validator_function(blank, function)
        r2 == ThenSet(r1, set_valid_value_types(r1.leaf, types))
        r3 == ThenSet(r2, set_allowed_values(r2.leaf, allowed))
        r4 == ThenSet(r3, set_forbidden_values(r3.leaf, forbidden))
    IN ThenSet(r4, set_validators(r4.leaf, validators))

(***************************************************************************)
(* Inputs                                                                  *)
(***************************************************************************)
na == <<"a">>
nb == <<"b">>

IntVals == {IntV(x) : x \in Vals}

\* {'a': leaf <= /b/a, 'b': {'b': leaf < MaxVal, 'a': leaf}}
Nested(x, y, z) ==
    Parent(Children2(na, Leaf(IntV(x), ValLeqAt(<<nb, na>>)),
                     nb, Parent(Children2(nb, Leaf(IntV(z), ValLessThan(MaxVal)),
                                          na, Leaf(IntV(y), ValTrue)))))

\* {'b': {'a': leaf whose validator raises}}
Raising(x) == Parent(Children1(nb, Parent(Children1(na, Leaf(IntV(x), ValRaises)))))

\* {'a': {}, 'b': {'b': leaf < MaxVal}}
WithEmpty(x) ==
    Parent(Children2(na, Parent(EmptyChildren),
                     nb, Parent(Children1(nb, Leaf(IntV(x), ValLessThan(MaxVal))))))

\* {'a': setting without 'value'}
Valueless == Parent(Children1(na, [validator |-> ValLessThan(MaxVal)]))

\* {'b': {'a': setting with the further key 'b'}, 'a': setting with the
\* further key 'a'}
WithExtra(x) ==
    Parent(Children2(nb, Parent(Children1(na, [value |-> IntV(x),
                                               validator |-> ValTrue,
                                               b |-> IntV(MaxVal - x)])),
                     na, [value |-> IntV(x), validator |-> ValTrue,
                          a |-> IntV(x)]))

ExtraDicts == {WithExtra(x) : x \in Vals}


InitialDicts ==
    {Nested(x, y, z) : x \in Vals, y \in Vals, z \in Vals}
    \cup {Raising(x) : x \in Vals}
    \cup {WithEmpty(x) : x \in Vals}
    \cup {Valueless}

\* {'b': setting, 'a': setting}
Flat(x, y) ==
    Parent(Children2(nb, Leaf(IntV(y), ValLessThan(MaxVal)),
                     na, Leaf(IntV(x), ValTrue)))

\* {'a': setting, 'b': {'a': setting}}, every validator accepting everything
Plain(x, y) ==
    Parent(Children2(na, Leaf(IntV(x), ValTrue),
                     nb, Parent(Children1(na, Leaf(IntV(y), ValTrue)))))

\* the trees the values are extracted from
ExtractDicts ==
    {Plain(x, y) : x \in Vals, y \in Vals}
    \cup {Nested(x, y, 0) : x \in Vals, y \in Vals}
    \cup {WithEmpty(x) : x \in Vals}
    \cup {Valueless}

\* {'a': setting, 'b': {'a': setting, 'b': {'a': setting}}}
Deep(x, y) ==
    Parent(Children2(
        na, Leaf(IntV(x), ValLessThan(MaxVal)),
        nb, Parent(Children2(
                na, Leaf(IntV(y), ValTrue),
                nb, Parent(Children1(na, Leaf(IntV(y), ValLessThan(MaxVal))))))))

DeepDicts == {Deep(x, y) : x \in Vals, y \in Vals}

\* what is written into the dict that the tree property returns
Damages == {"children = 5", "entry = 5", "del value", "del validator"}

\* the entries of such a tree, as the lists of child names leading to them
DamageLocs ==
    {<<>>, <<na>>, <<nb>>, <<nb, na>>, <<nb, nb>>, <<nb, nb, na>>}

\* the paths find_invalids is given on such a tree
DamagePaths ==
    {<<sep>>, <<sep, "a">>, <<sep, "b">>, <<sep, "b", sep>>,
     <<sep, "b", sep, "b">>}

QueryDicts ==
    InitialDicts \cup ExtraDicts \cup {Flat(x, y) : x \in Vals, y \in Vals}

\* the tp given to list_all
Kinds == {"all", "parent", "setting", "neither"}

SubMaps == UNION {[S -> IntVals] : S \in SUBSET Names}
TopA == IntVals
TopB == IntVals \cup {DictV(m) : m \in SubMaps}

\* the values dicts given to set_values
ValuesMaps ==
    {<<>>} \cup {(na :> x) : x \in TopA} \cup {(nb :> y) : y \in TopB}
    \cup {(na :> x) @@ (nb :> y) : x \in TopA, y \in TopB}

\* what extract_values() returns, when it returns
Extracted(self_tree) ==
    IF extract_values(self_tree).kind = "dict"
    THEN {extract_values(self_tree).v}
    ELSE {}

NameSeqs == {<<n>> : n \in Names} \cup {<<n, m>> : n \in Names, m \in Names}

\* the paths given to the single-path setters
SetPaths ==
    {<<sep>>} \cup {<<sep>> \o JoinSep(c) \o suffix :
                      c \in NameSeqs, suffix \in {<<>>, <<sep>>}}

\* paths that resolve to the root
RootPaths == {<<sep>>, <<sep, sep>>, <<sep, ".">>, <<sep, "a", sep, ".", ".">>}

\* a setting dict and a parent dict given as the value
InstV(d) == [t |-> "node", node |-> d]
Instances == {InstV(Leaf(IntV(0), ValTrue)), InstV(Parent(EmptyChildren))}

\* the attributes given to Leaf and the arguments of is_valid
LeafValues_ == IntVals \cup {TypeV("int")}
TypeSets ==
    {NoneV, TypeV("str"), TupleV(<<TypeV("int")>>), TupleV(<<TypeV("type")>>),
     TupleV(<<TypeV("str"), TypeV("int")>>)}
AllowedSets ==
    {NoneV, TupleV(<<IntV(0)>>), TupleV(<<IntV(MaxVal), IntV(0)>>),
     TupleV(<<TypeV("int")>>)}
ForbiddenSets == {NoneV, TupleV(<<IntV(0)>>), TupleV(<<TypeV("int")>>)}
ValidatorSets ==
    {NoneV,
     TupleV(<<V1("GreaterThan", 0)>>),
     TupleV(<<V1("LessThan", MaxVal)>>),
     TupleV(<<V1("GreaterThanOrEqualTo", MaxVal)>>),
     TupleV(<<V1("LessThanOrEqualTo", 0)>>),
     TupleV(<<V1("NotEqual", 0)>>),
     TupleV(<<V1("Between", <<MaxVal, 0>>)>>),
     TupleV(<<V1("NotBetween", <<0, MaxVal>>)>>),
     TupleV(<<V1("LessThanOrEqualTo", MaxVal), V1("NotEqual", 0)>>),
     TupleV(<<V1("Between", <<0, MaxVal>>)>>),
     TupleV(<<V1("Between", <<0, -1>>)>>),
     TupleV(<<V1("NotBetween", <<MaxVal, -1>>)>>),
     TupleV(<<V1("Between", <<0, MaxVal>>), V1("NotEqual", 0),
              V1("NotEqual", MaxVal)>>)}
FnV(fn) == [t |-> "function", fn |-> fn]
Functions ==
    {NoneV, FnV(FnTrue), FnV(FnFalse), FnV(FnRaises),
     FnV(FnEqualSetting(<<sep, "a">>))}
AllSettings ==
    {<<>>} \cup {(<<sep, "a">> :> x) : x \in {IntV(0), TypeV("int")}}
PythonVersions == {2, 3}

\* what is assigned to the constraints of a Leaf
Entry(name, params) == TupleV(<<StrV(name), params>>)
Pair(x, y) == TupleV(<<x, y>>)
TypeInputs ==
    {NoneV, TypeV("int"), TupleV(<<TypeV("str"), TypeV("int")>>), IntV(3),
     TupleV(<<TypeV("int"), StrV("av")>>), StrV("av")}
AllowedInputs == {NoneV, TupleV(<<IntV(0)>>), IntV(MaxVal)}
ForbiddenInputs == {NoneV, TupleV(<<IntV(0)>>), IntV(MaxVal)}
GoodValidatorInputs ==
    {NoneV,
     TupleV(<<Entry("LessThan", IntV(MaxVal))>>),
     TupleV(<<Entry("Between", Pair(IntV(MaxVal), IntV(0)))>>),
     TupleV(<<Entry("GreaterThan", IntV(0)), Entry("NotEqual", IntV(MaxVal))>>)}
BadValidatorInputs ==
    {IntV(9),
     TupleV(<<IntV(1)>>),
     TupleV(<<TupleV(<<StrV("LessThan")>>)>>),
     TupleV(<<StrV("ab")>>),
     TupleV(<<Entry("LessThen", IntV(3))>>),
     TupleV(<<Entry("Between", IntV(3))>>),
     TupleV(<<Entry("LessThan", Pair(IntV(3), IntV(2)))>>),
     TupleV(<<Entry("LessThan", TupleV(<<IntV(3)>>))>>),
     TupleV(<<Entry("LessThan", StrV("a"))>>),
     TupleV(<<Entry("NotBetween", TupleV(<<IntV(1), IntV(2), IntV(3)>>))>>),
     TupleV(<<Entry("Between", Pair(StrV("a"), IntV(2)))>>),
     TupleV(<<Entry("Between", StrV("ab"))>>),
     TupleV(<<Entry("GreaterThan", IntV(0)), Entry("LessThan", NoneV)>>),
     TupleV(<<Entry("Between", DictV([a |-> IntV(1), b |-> IntV(2)]))>>)}
ValidatorInputs == GoodValidatorInputs \cup BadValidatorInputs
FunctionInputs ==
    {NoneV, FnV(FnTrue), FnV(FnFalse), FnV(FnThreeArgs), IntV(9)}

\* the paths given to get_setting_by_path
Paths == StrUpTo(MaxPathLen)

(***************************************************************************)
(* State machine                                                           *)
(***************************************************************************)
Init ==
    /\ tree \in {TreeInit(d) : d \in InitialDicts}
    /\ pre = tree
    /\ last = [op |-> "init"]
    /\ leaf = LeafInit(NoneV, NoneV, NoneV, NoneV, NoneV, NoneV)

SetValues(values, force) ==
    LET r == set_values(tree, values, force) IN
    /\ tree' = r.tree
    /\ pre' = tree
    /\ last' = [op |-> "set_values", values |-> values, force |-> force,
                exc |-> "none", ret |-> r.ret]
    /\ leaf' = leaf

SetSettingByPath(path, value, force) ==
    LET r == set_setting_by_path(tree, path, value, force) IN
    /\ tree' = r.tree
    /\ pre' = tree
    /\ last' = [op |-> "set_setting_by_path", path |-> path, value |-> value,
                force |-> force, exc |-> r.exc, ret |-> r.ret]
    /\ leaf' = leaf

\* tree[path] = value
SetItem(path, value) ==
    LET r == set_setting_by_path(tree, path, value, FALSE) IN
    /\ tree' = r.tree
    /\ pre' = tree
    /\ last' = [op |-> "setitem", path |-> path, value |-> value,
                force |-> FALSE, exc |-> r.exc, ret |-> r.ret]
    /\ leaf' = leaf

\* tree[path]
GetSettingByPath(path) ==
    /\ tree' = tree
    /\ pre' = tree
    /\ last' = [op |-> "get", path |-> path,
                ret |-> get_setting_by_path(tree, path)]
    /\ leaf' = leaf

\* del tree[path]
DeleteSettingByPath(path) ==
    LET r == delete_setting_by_path(tree, path) IN
    /\ tree' = r.tree
    /\ pre' = tree
    /\ last' = [op |-> "delete", path |-> path, exc |-> r.exc]
    /\ leaf' = leaf

Next ==
    \/ \E values \in ValuesMaps \cup Extracted(tree), force \in BOOLEAN :
          SetValues(values, force)
    \/ \E path \in SetPaths, value \in IntVals, force \in BOOLEAN :
          SetSettingByPath(path, value, force)
    \/ \E path \in SetPaths, value \in IntVals : SetItem(path, value)

Spec == Init /\ [][Next]_vars

\* get_setting_by_path on its own: the path is drawn with the tree
InitGet ==
    /\ tree \in {TreeInit(d) : d \in InitialDicts \cup ExtraDicts}
    /\ pre = tree
    /\ \E path \in Paths : last = [op |-> "call", path |-> path]
    /\ leaf = LeafInit(NoneV, NoneV, NoneV, NoneV, NoneV, NoneV)

NextGet == last.op = "call" /\ GetSettingByPath(last.path)

SpecGet == InitGet /\ [][NextGet]_vars

\* tree.list_all(path, tp)
ListAll(path, tp) ==
    /\ tree' = tree
    /\ pre' = tree
    /\ last' = [op |-> "list_all", path |-> path, tp |-> tp,
                ret |-> list_all(tree, path, tp)]
    /\ leaf' = leaf

\* tree.diff(Tree(other))
Diff(other) ==
    /\ tree' = tree
    /\ pre' = tree
    /\ last' = [op |-> "diff", other |-> other, ret |-> diff(tree, other)]
    /\ leaf' = leaf

\* tree.find_invalids(path)
FindInvalids(path) ==
    /\ tree' = tree
    /\ pre' = tree
    /\ last' = [op |-> "find_invalids", path |-> path,
                ret |-> find_invalids(tree, path)]
    /\ leaf' = leaf

\* tree.check_values(path)
CheckValues(path) ==
    /\ tree' = tree
    /\ pre' = tree
    /\ last' = [op |-> "check_values", path |-> path,
                ret |-> check_values_path(tree, path)]
    /\ leaf' = leaf

\* the queries on their own: the call is drawn with the tree
InitQuery ==
    /\ tree \in {TreeInit(d) : d \in QueryDicts}
    /\ pre = tree
    /\ \/ \E path \in SetPaths \cup RootPaths, tp \in Kinds :
             last = [op |-> "call_list_all", path |-> path, tp |-> tp]
       \/ \E d \in QueryDicts :
             last = [op |-> "call_diff", other |-> TreeInit(d)]
       \/ \E path \in SetPaths \cup RootPaths :
             last = [op |-> "call_find_invalids", path |-> path]
       \/ \E path \in SetPaths \cup RootPaths :
             last = [op |-> "call_check_values", path |-> path]
    /\ leaf = LeafInit(NoneV, NoneV, NoneV, NoneV, NoneV, NoneV)

NextQuery ==
    \/ last.op = "call_list_all" /\ ListAll(last.path, last.tp)
    \/ last.op = "call_diff" /\ Diff(last.other)
    \/ last.op = "call_find_invalids" /\ FindInvalids(last.path)
    \/ last.op = "call_check_values" /\ CheckValues(last.path)

SpecQuery == InitQuery /\ [][NextQuery]_vars

\* leaf.is_valid(all_settings)
IsValid(all_settings, py) ==
    /\ leaf' = leaf
    /\ last' = [op |-> "is_valid", all_settings |-> all_settings, py |-> py,
                ret |-> is_valid(leaf, all_settings, py)]
    /\ UNCHANGED <<tree, pre>>

\* a Leaf on its own
InitLeaf ==
    /\ tree = TreeInit(Parent(EmptyChildren))
    /\ pre = tree
    /\ last = [op |-> "init"]
    /\ \E value \in LeafValues_, valid_value_types \in TypeSets,
          allowed_values \in AllowedSets, forbidden_values \in ForbiddenSets,
          validators \in ValidatorSets, validator_function \in Functions :
          leaf = LeafInit(value, valid_value_types, allowed_values,
                          forbidden_values, validators, validator_function)

NextLeaf ==
    \E all_settings \in AllSettings, py \in PythonVersions :
        IsValid(all_settings, py)

SpecLeaf == InitLeaf /\ [][NextLeaf]_vars

\* leaf.valid_value_types = value2
SetValidValueTypes(value2) ==
    /\ leaf' = set_valid_value_types(leaf, value2).leaf
    /\ last' = [op |-> "set_valid_value_types", value2 |-> value2,
                exc |-> set_valid_value_types(leaf, value2).exc, old |-> leaf]
    /\ UNCHANGED <<tree, pre>>

\* leaf.allowed_values = value2
SetAllowedValues(value2) ==
    /\ leaf' = set_allowed_values(leaf, value2).leaf
    /\ last' = [op |-> "set_allowed_values", value2 |-> value2,
                exc |-> set_allowed_values(leaf, value2).exc, old |-> leaf]
    /\ UNCHANGED <<tree, pre>>

\* leaf.forbidden_values = value2
SetForbiddenValues(value2) ==
    /\ leaf' = set_forbidden_values(leaf, value2).leaf
    /\ last' = [op |-> "set_forbidden_values", value2 |-> value2,
                exc |-> set_forbidden_values(leaf, value2).exc, old |-> leaf]
    /\ UNCHANGED <<tree, pre>>

\* leaf.validators = value2
SetValidators(value2) ==
    /\ leaf' = set_validators(leaf, value2).leaf
    /\ last' = [op |-> "set_validators", value2 |-> value2,
                exc |-> set_validators(leaf, value2).exc, old |-> leaf]
    /\ UNCHANGED <<tree, pre>>

\* leaf.validator_function = value2
SetValidatorFunction(value2) ==
    /\ leaf' = set_validator_function(leaf, value2).leaf
    /\ last' = [op |-> "set_validator_function", value2 |-> value2,
                exc |-> set_validator_function(leaf, value2).exc, old |-> leaf]
    /\ UNCHANGED <<tree, pre>>

\* leaf = Leaf(value=value, allowed_values=allowed, forbidden_values=forbidden):
\* when the constructor raises, no new leaf is bound
NewLeaf(value, allowed, forbidden) ==
    LET r == LeafNew(value, NoneV, allowed, forbidden, NoneV, NoneV) IN
    /\ leaf' = IF r.exc = "none" THEN r.leaf ELSE leaf
    /\ last' = [op |-> "Leaf", value |-> value, allowed |-> allowed,
                forbidden |-> forbidden, exc |-> r.exc, old |-> leaf]
    /\ UNCHANGED <<tree, pre>>

\* a Leaf, its setters and is_valid: the first leaf is Leaf()
InitLeafSet ==
    /\ tree = TreeInit(Parent(EmptyChildren))
    /\ pre = tree
    /\ last = [op |-> "init"]
    /\ leaf = LeafNew(NoneV, NoneV, NoneV, NoneV, NoneV, NoneV).leaf

NextLeafSet ==
    \/ \E value \in LeafValues_, allowed \in AllowedInputs,
          forbidden \in ForbiddenInputs : NewLeaf(value, allowed, forbidden)
    \/ \E value2 \in TypeInputs : SetValidValueTypes(value2)
    \/ \E value2 \in AllowedInputs : SetAllowedValues(value2)
    \/ \E value2 \in ForbiddenInputs : SetForbiddenValues(value2)
    \/ \E value2 \in ValidatorInputs : SetValidators(value2)
    \/ \E value2 \in FunctionInputs : SetValidatorFunction(value2)
    \/ \E py \in PythonVersions : IsValid(<<>>, py)

SpecLeafSet == InitLeafSet /\ [][NextLeafSet]_vars

\* the single-path writers on their own: the call is drawn with the tree
InitSet ==
    /\ tree \in {TreeInit(d) : d \in InitialDicts}
    /\ pre = tree
    /\ \/ \E path \in SetPaths \cup RootPaths, value \in IntVals \cup Instances,
             force \in BOOLEAN :
             last = [op |-> "call_set", path |-> path, value |-> value,
                     force |-> force]
       \/ \E path \in SetPaths \cup RootPaths :
             last = [op |-> "call_delete", path |-> path]
    /\ leaf = LeafInit(NoneV, NoneV, NoneV, NoneV, NoneV, NoneV)

NextSet ==
    \/ last.op = "call_set"
          /\ SetSettingByPath(last.path, last.value, last.force)
    \/ last.op = "call_delete" /\ DeleteSettingByPath(last.path)

SpecSet == InitSet /\ [][NextSet]_vars


\* tree.extract_values()
ExtractValues ==
    /\ tree' = tree
    /\ pre' = tree
    /\ last' = [op |-> "extract_values", ret |-> extract_values(tree)]
    /\ leaf' = leaf

\* bulk apply and extraction
InitExtract ==
    /\ tree \in {TreeInit(d) : d \in ExtractDicts}
    /\ pre = tree
    /\ last = [op |-> "init"]
    /\ leaf = LeafInit(NoneV, NoneV, NoneV, NoneV, NoneV, NoneV)

NextExtract ==
    \/ \E values \in ValuesMaps \cup Extracted(tree), force \in BOOLEAN :
          SetValues(values, force)
    \/ ExtractValues

SpecExtract == InitExtract /\ [][NextExtract]_vars

\* del node[key]
DelKey(node, key) == [x \in (DOMAIN node) \ {key} |-> node[x]]

\* the entry after the write
Damaged(node, damage) ==
    CASE damage = "children = 5" -> SetKey(node, "children", IntV(5))
      [] damage = "entry = 5" -> IntV(5)
      [] damage = "del value" -> DelKey(node, "value")
      [] damage = "del validator" -> DelKey(node, "validator")

\* a write through the reference that tree.tree returns, at the entry loc:
\* entry['children'] = 5, parent['children'][name] = 5, del entry['value'],
\* del entry['validator']
WriteThroughTree(loc, damage) ==
    /\ last.op = "init"
    /\ NodeAt(tree, loc).ok
    /\ damage = "children = 5" => Has(NodeAt(tree, loc).node, "children")
    /\ damage = "entry = 5" => loc # <<>>
    /\ damage \in {"del value", "del validator"}
          => ~Has(NodeAt(tree, loc).node, "children")
    /\ tree' = ReplaceAt(tree, loc, Damaged(NodeAt(tree, loc).node, damage))
    /\ pre' = tree
    /\ last' = [op |-> "write", loc |-> loc, damage |-> damage]
    /\ leaf' = leaf

\* find_invalids on a tree that was written to from outside
InitDamage ==
    /\ tree \in {TreeInit(d) : d \in DeepDicts}
    /\ pre = tree
    /\ last = [op |-> "init"]
    /\ leaf = LeafInit(NoneV, NoneV, NoneV, NoneV, NoneV, NoneV)

NextDamage ==
    \/ \E loc \in DamageLocs, damage \in Damages :
          WriteThroughTree(loc, damage)
    \/ \E path \in DamagePaths : last.op # "find_invalids" /\ FindInvalids(path)

SpecDamage == InitDamage /\ [][NextDamage]_vars

\* the trees diff is given: a Tree, a dict that no Tree has been made of, and
\* a copy of the parent '/b' of a Tree, stored paths included
GivenTrees ==
    {[isTree |-> TRUE, tree |-> TreeInit(d)] : d \in InitialDicts}
    \cup {[isTree |-> FALSE, tree |-> d] : d \in InitialDicts}
    \cup {[isTree |-> FALSE, tree |-> NodeAt(TreeInit(Plain(x, y)), <<nb>>).node] :
            x \in Vals, y \in Vals}

\* lines 1081-1084: the Tree given is used as it is; a dict given is handed
\* to Tree(), which keeps the dict itself and writes the paths into it
SioOf(given) == IF given.isTree THEN given.tree ELSE TreeInit(given.tree)

\* tree.list_children(path)
ListChildren(path) ==
    /\ tree' = tree
    /\ pre' = tree
    /\ last' = [op |-> "list_children", path |-> path,
                ret |-> list_children(tree, path)]
    /\ leaf' = leaf

\* tree.type_path(path)
TypePath(path) ==
    /\ tree' = tree
    /\ pre' = tree
    /\ last' = [op |-> "type_path", path |-> path,
                ret |-> type_path(tree, path)]
    /\ leaf' = leaf

\* tree.diff(tree_or_Tree): other is what the caller's tree was before the
\* call and after what it is when the call has returned
DiffGiven(given) ==
    /\ tree' = tree
    /\ pre' = tree
    /\ last' = [op |-> "diff", other |-> given.tree, after |-> SioOf(given),
                ret |-> diff(tree, SioOf(given))]
    /\ leaf' = leaf

\* the queries, one after another
InitReadOnly ==
    /\ tree \in {TreeInit(d) : d \in InitialDicts}
    /\ pre = tree
    /\ last = [op |-> "init"]
    /\ leaf = LeafInit(NoneV, NoneV, NoneV, NoneV, NoneV, NoneV)

NextReadOnly ==
    \/ \E path \in SetPaths \cup RootPaths : GetSettingByPath(path)
    \/ \E path \in SetPaths \cup RootPaths : ListChildren(path)
    \/ \E path \in SetPaths \cup RootPaths, tp \in Kinds : ListAll(path, tp)
    \/ \E path \in SetPaths \cup RootPaths : TypePath(path)
    \/ \E given \in GivenTrees : DiffGiven(given)
    \/ ExtractValues
    \/ \E path \in SetPaths \cup RootPaths : FindInvalids(path)
    \/ \E path \in SetPaths \cup RootPaths : CheckValues(path)

SpecReadOnly == InitReadOnly /\ [][NextReadOnly]_vars

(***************************************************************************)
(* Vocabulary of the properties                                            *)
(***************************************************************************)
RECURSIVE LocsOf(_, _)
\* every entry of the tree, as the list of child names leading to it
LocsOf(node, loc) ==
    {loc} \cup (IF Has(node, "children")
                THEN UNION {LocsOf(node.children.map[k], Append(loc, k)) :
                              k \in DOMAIN node.children.map}
                ELSE {})

RECURSIVE EntryAt(_, _)
EntryAt(node, loc) ==
    IF loc = <<>> THEN node ELSE EntryAt(node.children.map[Head(loc)], Tail(loc))

\* a leaf is an entry without 'children', a node an entry with 'children'
LeafLocs(t) == {l \in LocsOf(t, <<>>) : ~Has(EntryAt(t, l), "children")}
NodeLocs(t) == {l \in LocsOf(t, <<>>) : Has(EntryAt(t, l), "children")}

\* the value of every leaf: <<v>>, or <<>> for a leaf without 'value'
LeafValues(t) ==
    [l \in LeafLocs(t) |->
        IF Has(EntryAt(t, l), "value") THEN <<EntryAt(t, l).value>> ELSE <<>>]

RECURSIVE Supplied(_, _)
\* <<v>> when the values dict addresses loc with v, <<>> when it does not
Supplied(values, loc) ==
    IF loc = <<>> \/ Head(loc) \notin DOMAIN values THEN <<>>
    ELSE IF Len(loc) = 1 THEN <<values[Head(loc)]>>
    ELSE IF values[Head(loc)].t = "dict"
    THEN Supplied(values[Head(loc)].v, Tail(loc))
    ELSE <<>>

\* the leaf values a committed bulk apply must leave
ExpectedLeafValues(t, values) ==
    [l \in LeafLocs(t) |->
        IF Supplied(values, l) # <<>> THEN Supplied(values, l)
        ELSE LeafValues(t)[l]]

RECURSIVE KeyLocs(_, _)
\* every key of a values dict, nested keys included
KeyLocs(values, loc) ==
    UNION {{Append(loc, k)} \cup
           (IF values[k].t = "dict" THEN KeyLocs(values[k].v, Append(loc, k))
            ELSE {}) : k \in DOMAIN values}

\* every setting has a value and a validator that accepts it, given the
\* values of the tree t itself
TreeValid(t) ==
    \A l \in LeafLocs(t) :
        LET e == EntryAt(t, l) IN
        /\ Has(e, "value") /\ Has(e, "validator")
        /\ CallValidator(e.validator, e.value, t, e) = "True"

\* '/' + '/'.join(loc)
CanonPath(loc) == <<sep>> \o JoinSep(loc)

\* the names of a path made of names and separators
PathLoc(path) == SelectSeq(Split(path), LAMBDA c : c # <<>>)

IsLeaf(e) == Has(e, "value") /\ ~Has(e, "children")
IsNode(e) == Has(e, "children") /\ ~Has(e, "value")

(***************************************************************************)
(* C1. Atomicity of bulk apply: when set_values(values, force=False)       *)
(* returns False, every leaf value of the live tree after the call equals  *)
(* its value before the call.                                              *)
(***************************************************************************)
C1_Atomicity ==
    (last.op = "set_values" /\ ~last.force /\ ~last.ret)
        => LeafValues(tree) = LeafValues(pre)

\* a rejected non-forced call whose values would have changed a leaf
C1_Witness ==
    /\ last.op = "set_values" /\ ~last.force /\ ~last.ret
    /\ \E l \in LeafLocs(pre) :
          /\ Supplied(last.values, l) # <<>>
          /\ Supplied(last.values, l) # LeafValues(pre)[l]

(***************************************************************************)
(* C2. The boolean returned by set_values is the validity of the tree that *)
(* results from writing every staged value, each validator being given the *)
(* staged values of all leaves (a validator that reads another leaf sees   *)
(* that leaf's new value from the same call).                              *)
(***************************************************************************)
C2_ReturnsStagedValidity ==
    last.op = "set_values"
        => last.ret = TreeValid(set_values_node(pre, last.values, TRUE, pre))

(***************************************************************************)
(* C3. Validity is preserved by non-forced writes: from a tree for which   *)
(* check_values() is True, a set_values(values, force=False), a            *)
(* set_setting_by_path(path, value, force=False) or a tree[path] = value   *)
(* leaves a tree for which check_values() is True.                         *)
(***************************************************************************)
C3_ValidityPreserved ==
    (/\ last.op \in {"set_values", "set_setting_by_path", "setitem"}
     /\ ~last.force
     /\ check_values(pre))
        => check_values(tree)

C5_StructureKept ==
    last.op = "set_values"
        => /\ last.exc = "none"
           /\ LeafLocs(tree) = LeafLocs(pre)
           /\ NodeLocs(tree) = NodeLocs(pre)

\* a committed call one of whose keys names no existing child
C5_Witness ==
    /\ last.op = "set_values" /\ (last.ret \/ last.force)
    /\ \E k \in KeyLocs(last.values, <<>>) : k \notin LocsOf(pre, <<>>)
    /\ LeafValues(tree) # LeafValues(pre)

(***************************************************************************)
(* C6. Single-leaf set: set_setting_by_path(path, value, force) on an      *)
(* existing leaf returns the validity of the whole tree with the new value *)
(* in place; when it returns False and force is False the leaf holds its   *)
(* previous value, when it returns True or force is True the leaf holds    *)
(* the new value; all other leaves are unchanged.                          *)
(***************************************************************************)
C6_SingleLeafSet ==
    (/\ last.op = "set_setting_by_path"
     /\ PathLoc(last.path) \in LeafLocs(pre)
     /\ Has(EntryAt(pre, PathLoc(last.path)), "value"))
        => LET l == PathLoc(last.path)
               staged == ReplaceAt(pre, l, SetKey(EntryAt(pre, l), "value",
                                                  last.value))
           IN /\ last.exc = "none"
              /\ last.ret = TreeValid(staged)
              /\ (~last.ret /\ ~last.force) => LeafValues(tree)[l] = LeafValues(pre)[l]
              /\ (last.ret \/ last.force) => LeafValues(tree)[l] = <<last.value>>
              /\ LeafLocs(tree) = LeafLocs(pre)
              /\ \A m \in LeafLocs(pre) \ {l} :
                    LeafValues(tree)[m] = LeafValues(pre)[m]

\* a rejected non-forced set of a new value on a nested leaf
C6_Witness ==
    /\ last.op = "set_setting_by_path" /\ ~last.force /\ ~last.ret
    /\ last.exc = "none"
    /\ Len(PathLoc(last.path)) = 2
    /\ PathLoc(last.path) \in LeafLocs(pre)
    /\ LeafValues(pre)[PathLoc(last.path)] # <<last.value>>

(***************************************************************************)
(* C7. Round trip: on a tree for which check_values() is True,             *)
(* set_values(extract_values()) returns True and leaves every leaf value   *)
(* and the validity of the tree unchanged.                                 *)
(***************************************************************************)
C7_RoundTrip ==
    (/\ last.op = "set_values"
     /\ check_values(pre)
     /\ extract_values(pre).kind = "dict"
     /\ last.values = extract_values(pre).v)
        => /\ last.ret
           /\ LeafValues(tree) = LeafValues(pre)
           /\ check_values(tree)

\* the round trip on a valid tree with leaves at two depths
C7_Witness ==
    /\ last.op = "set_values"
    /\ check_values(pre)
    /\ extract_values(pre).kind = "dict"
    /\ last.values = extract_values(pre).v
    /\ \E l \in LeafLocs(pre), m \in LeafLocs(pre) : Len(l) = 1 /\ Len(m) = 2
    /\ last.ret

(***************************************************************************)
(* C8. Trailing-separator semantics of get: for every existing non-root    *)
(* path p, get(p + '/') returns the entry stored at p, get(p) returns the  *)
(* value when p is a leaf and the list of child names when p is a node,    *)
(* at every depth.                                                         *)
(***************************************************************************)
C8_TrailingSeparator ==
    last.op = "get"
        => \A l \in LocsOf(tree, <<>>) \ {<<>>} :
              LET p == CanonPath(l)
                  e == EntryAt(tree, l)
              IN /\ last.path = p \o <<sep>>
                    => (last.ret.kind = "node" /\ last.ret.loc = l
                        /\ last.ret.node = e)
                 /\ (last.path = p /\ IsLeaf(e)) => last.ret = ValueRes(e.value)
                 /\ (last.path = p /\ IsNode(e))
                    => last.ret = KeysRes(e.children.keys)

\* get of a nested leaf with a trailing separator returned the leaf
C8_Witness ==
    /\ last.op = "get"
    /\ \E l \in LeafLocs(tree) :
          /\ Len(l) = 2
          /\ last.path = CanonPath(l) \o <<sep>>
          /\ last.ret.kind = "node"

(***************************************************************************)
(* C9. Root addressing: get('//') returns the root node itself and         *)
(* get('/') returns the list of the root's child names in insertion order. *)
(***************************************************************************)
C9_RootAddressing ==
    last.op = "get"
        => /\ last.path = <<sep, sep>>
              => (last.ret.kind = "node" /\ last.ret.loc = <<>>)
           /\ last.path = <<sep>> => last.ret = KeysRes(tree.children.keys)

(***************************************************************************)
(* C10. Not-found on get: for every path in which some segment names no    *)
(* existing child, at the last level or at an intermediate one, with or    *)
(* without a trailing separator, get raises KeyError.                      *)
(***************************************************************************)
RECURSIVE MissingSegment(_, _)
MissingSegment(node, comps) ==
    /\ comps # <<>>
    /\ IF Has(node, "children") /\ Head(comps) \in DOMAIN node.children.map
       THEN MissingSegment(node.children.map[Head(comps)], Tail(comps))
       ELSE TRUE

\* the segments of a path, '.' and '..' resolved
Segments(path) == NormComps(Split(path), 1, InitialSlashes(path), <<>>)

C10_NotFound ==
    (last.op = "get" /\ MissingSegment(tree, Segments(last.path)))
        => last.ret.kind = "KeyError"

\* a path through an existing node to a name it does not hold
C10_Witness ==
    /\ last.op = "get"
    /\ Len(Segments(last.path)) = 2
    /\ <<Segments(last.path)[1]>> \in NodeLocs(tree)
    /\ MissingSegment(tree, Segments(last.path))
    /\ last.ret.kind = "KeyError"

\* the keys of a setting other than the ones the Tree uses
ExtraKeys(e) == DOMAIN e \ {"children", "value", "validator", "path"}

(***************************************************************************)
(* C11. A path that continues past a leaf addresses that leaf's extra      *)
(* parameters: for a leaf at path p with extra parameter k = v,            *)
(* get(p + '/' + k) returns v, and for a key k that is not an extra        *)
(* parameter of the leaf it raises KeyError.                                *)
(***************************************************************************)
C11_ExtraParameters ==
    last.op = "get"
        => \A l \in LeafLocs(tree) : \A k \in Letters :
              last.path = CanonPath(l) \o <<sep, k>>
                  => IF k \in ExtraKeys(EntryAt(tree, l))
                     THEN last.ret = ValueRes(EntryAt(tree, l)[k])
                     ELSE last.ret = KeyError

\* the entry e is the instance x (the 'path' the Tree adds left aside)
SameEntry(e, x) ==
    /\ DOMAIN e \ {"path"} = DOMAIN x
    /\ \A f \in DOMAIN x : e[f] = x[f]

\* the entries of t away from the names loc and what lies on the way to them
OtherEntries(t, loc) ==
    [l \in {m \in LocsOf(t, <<>>) :
              \A i \in 1..Len(m) : i > Len(loc) \/ m[i] # loc[i]} |->
        EntryAt(t, l)]

(***************************************************************************)
(* C12. Single-path set of a Leaf/Node instance x: at a path whose         *)
(* intermediate segments do not exist a node is created for every missing  *)
(* segment and x is stored at the path, so that get(path + '/') returns x  *)
(* afterwards; at an existing name x is inserted or overwrites the entry   *)
(* unconditionally; all other existing children are unchanged.             *)
(***************************************************************************)
C12_SetInstance ==
    (/\ last.op = "set_setting_by_path"
     /\ last.value.t = "node"
     /\ RelativeNames(last.path) # <<>>)
        => /\ last.exc = "none"
           /\ get_setting_by_path(tree, SettingPath(last.path)).kind = "node"
           /\ SameEntry(get_setting_by_path(tree, SettingPath(last.path)).node,
                        last.value.node)
           /\ OtherEntries(tree, <<Head(RelativeNames(last.path))>>)
                 = OtherEntries(pre, <<Head(RelativeNames(last.path))>>)

(***************************************************************************)
(* C13. Single-path set of a plain value (neither Leaf nor Node): at a     *)
(* path that does not exist it raises KeyError, at a path that holds a     *)
(* node it raises TypeError, and in both cases the tree is left unchanged. *)
(***************************************************************************)
C13_SetPlainErrors ==
    (/\ last.op = "set_setting_by_path"
     /\ last.value.t = "int"
     /\ RelativeNames(last.path) # <<>>)
        => /\ RelativeNames(last.path) \notin LocsOf(pre, <<>>)
                 => (last.exc = "KeyError" /\ tree = pre)
           /\ RelativeNames(last.path) \in NodeLocs(pre)
                 => (last.exc = "TypeError" /\ tree = pre)

WellFormed(t) ==
    \A l \in LeafLocs(t) :
        Has(EntryAt(t, l), "value") /\ Has(EntryAt(t, l), "validator")

\* l lies at or below loc
Below(loc, l) == Len(l) >= Len(loc) /\ SubSeq(l, 1, Len(loc)) = loc

\* the descendants of the entry at loc, at every depth
Descendants(t, loc) == {l \in LocsOf(t, <<>>) : Below(loc, l) /\ l # loc}

Paths_(locs) == {CanonPath(l) : l \in locs}

IsSorted(l) == \A i \in 1..Len(l) : \A j \in 1..Len(l) : i < j => StrLess(l[i], l[j])

NoDuplicates(l) == \A i \in 1..Len(l) : \A j \in 1..Len(l) : i # j => l[i] # l[j]

(***************************************************************************)
(* C15. list_all is complete and partitioned: list_all(path, 'all')        *)
(* returns, sorted by path string and without duplicates, the full path of *)
(* every descendant of the node at path at every depth (not only its       *)
(* direct children); the leaf-filtered and node-filtered results are       *)
(* disjoint and their union is the 'all' result; the leaf-filtered result  *)
(* is exactly the set of all leaf paths in the subtree.                    *)
(***************************************************************************)
C15_ListAllComplete ==
    (/\ last.op = "list_all"
     /\ WellFormed(tree)
     /\ last.path \in SetPaths /\ EndsWithSep(last.path)
     /\ RelativeNames(last.path) \in NodeLocs(tree))
        => /\ last.ret.kind = "list"
           /\ last.tp = "all"
                 => /\ IsSorted(last.ret.paths)
                    /\ Range(last.ret.paths)
                          = Paths_(Descendants(tree, RelativeNames(last.path)))
           /\ last.tp = "setting"
                 => /\ Range(last.ret.paths)
                          = Paths_(Descendants(tree, RelativeNames(last.path))
                                   \cap LeafLocs(tree))
                    /\ Range(last.ret.paths)
                          \cap Range(list_all(tree, last.path, "parent").paths) = {}
                    /\ Range(last.ret.paths)
                          \cup Range(list_all(tree, last.path, "parent").paths)
                          = Range(list_all(tree, last.path, "all").paths)

\* the value of the leaf with path p
ValueAtPath(t, p) == EntryAt(t, RelativeNames(p)).value

(***************************************************************************)
(* C16. diff is computed over the leaf paths of both whole trees (leaves   *)
(* at every depth): A.diff(B) returns (changed, onlyA, onlyB) where        *)
(* changed is exactly the leaf paths present in both trees whose values    *)
(* are not equal, onlyA exactly the leaf paths of A absent from B, and     *)
(* onlyB exactly the leaf paths of B absent from A; the three lists are    *)
(* pairwise disjoint and diff of two trees with equal leaves returns       *)
(* ([], [], []).                                                           *)
(***************************************************************************)
C16_DiffOverLeaves ==
    (last.op = "diff" /\ WellFormed(tree) /\ WellFormed(last.other))
        => /\ last.ret.kind = "tuple"
           /\ Range(last.ret.different)
                 = {p \in Paths_(LeafLocs(tree)) \cap Paths_(LeafLocs(last.other)) :
                      ValueAtPath(tree, p) # ValueAtPath(last.other, p)}
           /\ Range(last.ret.in_self_only)
                 = Paths_(LeafLocs(tree)) \ Paths_(LeafLocs(last.other))
           /\ Range(last.ret.in_sio_only)
                 = Paths_(LeafLocs(last.other)) \ Paths_(LeafLocs(tree))
           /\ Range(last.ret.different) \cap Range(last.ret.in_self_only) = {}
           /\ Range(last.ret.different) \cap Range(last.ret.in_sio_only) = {}
           /\ Range(last.ret.in_self_only) \cap Range(last.ret.in_sio_only) = {}

(***************************************************************************)
(* C17. diff is symmetric up to swapping the last two results: for any two *)
(* trees A and B, if A.diff(B) == (changed, onlyA, onlyB) then             *)
(* B.diff(A) == (changed, onlyB, onlyA).                                   *)
(***************************************************************************)
C17_DiffSymmetry ==
    (last.op = "diff" /\ last.ret.kind = "tuple")
        => diff(last.other, tree)
              = [kind |-> "tuple",
                 different |-> last.ret.different,
                 in_self_only |-> last.ret.in_sio_only,
                 in_sio_only |-> last.ret.in_self_only]

\* a diff with a changed setting and a setting of this tree only
C17_Witness ==
    /\ last.op = "diff" /\ last.ret.kind = "tuple"
    /\ last.ret.different # <<>>
    /\ last.ret.in_self_only # <<>>
    /\ last.ret.in_sio_only = <<>>

\* the validator of the leaf at l does not accept its value, given the tree
Rejected(t, l) ==
    CallValidator(EntryAt(t, l).validator, EntryAt(t, l).value, t,
                  EntryAt(t, l)) # "True"

\* the paths of the rejected leaves at or below the entry that path names
RejectedUnder(t, path) ==
    Paths_({l \in LeafLocs(t) : Below(RelativeNames(path), l) /\ Rejected(t, l)})

(***************************************************************************)
(* C18. find_invalids(path) returns exactly the full paths of the leaves   *)
(* under path (at every depth) whose validator rejects their current       *)
(* value, each exactly once, and check_values(path) is True if and only if *)
(* find_invalids(path) is empty; both run against the live tree and do not *)
(* change it.                                                              *)
(***************************************************************************)
C18_FindInvalids ==
    (/\ last.op \in {"find_invalids", "check_values"}
     /\ WellFormed(tree)
     /\ last.path \in SetPaths
     /\ RelativeNames(last.path) \in LocsOf(tree, <<>>))
        => /\ tree = pre
           /\ last.op = "find_invalids"
                 => /\ last.ret.kind = "list"
                    /\ NoDuplicates(last.ret.paths)
                    /\ Range(last.ret.paths) = RejectedUnder(tree, last.path)
           /\ last.op = "check_values"
                 => /\ last.ret.kind = "bool"
                    /\ last.ret.v = (RejectedUnder(tree, last.path) = {})
                    /\ last.ret.v = (find_invalids(tree, last.path).paths = <<>>)

\* find_invalids under '/b' reports the one rejected leaf there while another
\* leaf is rejected elsewhere and one under '/b' is accepted
C18_Witness ==
    /\ last.op = "find_invalids"
    /\ RelativeNames(last.path) = <<nb>>
    /\ last.ret = ListRes(<<CanonPath(<<nb, nb>>)>>)
    /\ WellFormed(tree)
    /\ {<<na>>, <<nb, na>>} \subseteq LeafLocs(tree)
    /\ Rejected(tree, <<na>>)
    /\ ~Rejected(tree, <<nb, na>>)

\* type(value)
TypeOf(v) == IF v.t = "int" THEN TypeV("int") ELSE TypeV("type")

\* the run-time type of the value is one of valid_value_types
TypeAllowed(l) == InTuple(TypeOf(l.value), l.valid_value_types)

(***************************************************************************)
(* C19. Type constraint of a Leaf: when valid_value_types is set, is_valid *)
(* is False whenever the run-time type of the value is not one of those    *)
(* types, whatever the other constraints are, and, when no other           *)
(* constraint is set, is_valid is True whenever the run-time type of the   *)
(* value is one of those types.                                            *)
(***************************************************************************)
C19_TypeConstraint ==
    (last.op = "is_valid" /\ leaf.valid_value_types.t # "None")
        => /\ ~TypeAllowed(leaf) => last.ret = BoolRes(FALSE)
           /\ (/\ TypeAllowed(leaf)
               /\ leaf.allowed_values.t = "None"
               /\ leaf.forbidden_values.t = "None"
               /\ leaf.validators.t = "None"
               /\ leaf.validator_function.t = "None")
                 => last.ret = BoolRes(TRUE)

\* the number n passes the simple validator val with params
SimpleHolds(val, n, params) ==
    CASE val = "GreaterThan" -> n > params
      [] val = "LessThan" -> n < params
      [] val = "GreaterThanOrEqualTo" -> n >= params
      [] val = "LessThanOrEqualTo" -> n <= params
      [] val = "NotEqual" -> n # params
      [] val = "Between" ->
            /\ \E p \in {params[1], params[2]} : p <= n
            /\ \E p \in {params[1], params[2]} : n <= p
      [] val = "NotBetween" ->
            \/ \A p \in {params[1], params[2]} : n <= p
            \/ \A p \in {params[1], params[2]} : n >= p

\* the type, allow-list, deny-list and simple-validator checks all pass
EarlierChecksPass(l) ==
    /\ l.valid_value_types.t # "None" => TypeAllowed(l)
    /\ l.allowed_values.t # "None" => InTuple(l.value, l.allowed_values)
    /\ l.forbidden_values.t # "None" => ~InTuple(l.value, l.forbidden_values)
    /\ l.validators.t # "None"
          => \A i \in 1..Len(l.validators.items) :
                SimpleHolds(l.validators.items[i].val, l.value.v,
                            l.validators.items[i].params)

(***************************************************************************)
(* C20. Custom predicate of a Leaf: validator_function is consulted only   *)
(* after the type, allow-list, deny-list and simple-validator checks have  *)
(* all passed (a leaf failing one of them is invalid even when the         *)
(* function would return True); when they pass, is_valid equals the        *)
(* function's result for (value, all_values); an exception raised by the   *)
(* function makes is_valid return False and never propagates to the        *)
(* caller.  (Stated for the values the simple validators can compare:      *)
(* numbers, or any value when no simple validator is set.)                 *)
(***************************************************************************)
C20_CustomPredicate ==
    (/\ last.op = "is_valid"
     /\ leaf.validator_function.t # "None"
     /\ (leaf.validators.t = "None" \/ leaf.value.t = "int"))
        => /\ last.ret.kind = "bool"
           /\ last.ret.v
                 = (/\ EarlierChecksPass(leaf)
                    /\ CallFunction(leaf.validator_function.fn, leaf.value,
                                    last.all_settings) = "True")

\* the simple validators are the only constraint of the leaf
OnlyValidators(l) ==
    /\ l.valid_value_types.t = "None"
    /\ l.allowed_values.t = "None"
    /\ l.forbidden_values.t = "None"
    /\ l.validator_function.t = "None"
    /\ l.validators.t # "None"

(***************************************************************************)
(* C21. Simple validators of a Leaf: a leaf whose only constraint is       *)
(* validators is valid if and only if every entry holds for its value V,   *)
(* where GreaterThan X is V > X, GreaterThanOrEqualTo X is V >= X,         *)
(* LessThan X is V < X, LessThanOrEqualTo X is V <= X, NotEqual X is       *)
(* V != X, Between (X, Y) is min(X,Y) <= V <= max(X,Y) and NotBetween      *)
(* (X, Y) is V <= min(X,Y) or V >= max(X,Y), whatever the order in which   *)
(* the two bounds were given.  (Stated for the values the comparisons are  *)
(* defined on: numbers.)                                                   *)
(***************************************************************************)
C21_SimpleValidators ==
    (last.op = "is_valid" /\ OnlyValidators(leaf) /\ leaf.value.t = "int")
        => last.ret = BoolRes(\A i \in 1..Len(leaf.validators.items) :
                                 SimpleHolds(leaf.validators.items[i].val,
                                             leaf.value.v,
                                             leaf.validators.items[i].params))

\* a value inside bounds that were given as (upper, lower) is valid
C21_Witness ==
    /\ last.op = "is_valid"
    /\ OnlyValidators(leaf)
    /\ leaf.validators = TupleV(<<V1("Between", <<MaxVal, 0>>)>>)
    /\ leaf.value = IntV(0)
    /\ last.ret = BoolRes(TRUE)

\* a leaf whose only constraint is the one range validator val with bounds
\* lo < hi, and whose value is lo or hi
BoundaryLeaf(l, val) ==
    /\ OnlyValidators(l)
    /\ Len(l.validators.items) = 1
    /\ l.validators.items[1].val = val
    /\ l.validators.items[1].params[1] < l.validators.items[1].params[2]
    /\ l.value.t = "int"
    /\ l.value.v \in {l.validators.items[1].params[1],
                      l.validators.items[1].params[2]}

\* Between(lo, hi) with NotEqual(lo) and NotEqual(hi), the value being lo or hi
OpenIntervalLeaf(l) ==
    /\ OnlyValidators(l)
    /\ Len(l.validators.items) = 3
    /\ l.validators.items[1].val = "Between"
    /\ l.validators.items[1].params[1] < l.validators.items[1].params[2]
    /\ l.validators.items[2]
          = V1("NotEqual", l.validators.items[1].params[1])
    /\ l.validators.items[3]
          = V1("NotEqual", l.validators.items[1].params[2])
    /\ l.value.t = "int"
    /\ l.value.v \in {l.validators.items[1].params[1],
                      l.validators.items[1].params[2]}

(***************************************************************************)
(* C22, as claimed. Boundary values of range validators: for bounds        *)
(* (lo, hi) with lo < hi, a leaf whose value equals lo or hi is valid      *)
(* under Between(lo, hi) and invalid under NotBetween(lo, hi); combining   *)
(* Between(lo, hi) with NotEqual(lo) and NotEqual(hi) makes both boundary  *)
(* values invalid.                                                         *)
(***************************************************************************)
C22_Boundary ==
    last.op = "is_valid"
        => /\ BoundaryLeaf(leaf, "Between") => last.ret = BoolRes(TRUE)
           /\ BoundaryLeaf(leaf, "NotBetween") => last.ret = BoolRes(FALSE)
           /\ OpenIntervalLeaf(leaf) => last.ret = BoolRes(FALSE)

(***************************************************************************)
(* C22, amended. For bounds (lo, hi) with lo < hi, a leaf whose value      *)
(* equals lo or hi is valid under Between(lo, hi) and valid under          *)
(* NotBetween(lo, hi) as well; combining Between(lo, hi) with NotEqual(lo) *)
(* and NotEqual(hi) makes both boundary values invalid.                    *)
(***************************************************************************)
C22_BoundaryInclusive ==
    last.op = "is_valid"
        => /\ BoundaryLeaf(leaf, "Between") => last.ret = BoolRes(TRUE)
           /\ BoundaryLeaf(leaf, "NotBetween") => last.ret = BoolRes(TRUE)
           /\ OpenIntervalLeaf(leaf) => last.ret = BoolRes(FALSE)

\* the upper bound under NotBetween(0, MaxVal) is valid
C22_Witness ==
    /\ last.op = "is_valid"
    /\ BoundaryLeaf(leaf, "NotBetween")
    /\ leaf.value = IntV(MaxVal)
    /\ last.ret = BoolRes(TRUE)

(***************************************************************************)
(* C23. Allow and deny lists of a Leaf: when allowed_values is set a value *)
(* that equals none of its elements is invalid, when forbidden_values is   *)
(* set a value that equals one of its elements is invalid, whatever        *)
(* validator_function returns; constructing a Leaf whose value is in both  *)
(* lists raises nothing and yields a leaf for which is_valid is False.     *)
(***************************************************************************)
C23_AllowDeny ==
    /\ last.op = "is_valid"
          => /\ (/\ leaf.allowed_values.t # "None"
                 /\ \A i \in 1..Len(leaf.allowed_values.items) :
                       leaf.allowed_values.items[i] # leaf.value)
                   => last.ret = BoolRes(FALSE)
             /\ (/\ leaf.forbidden_values.t # "None"
                 /\ \E i \in 1..Len(leaf.forbidden_values.items) :
                       leaf.forbidden_values.items[i] = leaf.value)
                   => last.ret = BoolRes(FALSE)
    /\ (/\ last.op = "Leaf"
        /\ last.allowed.t = "tuple"
        /\ last.forbidden.t = "tuple"
        /\ \E i \in 1..Len(last.allowed.items) :
              last.allowed.items[i] = last.value
        /\ \E i \in 1..Len(last.forbidden.items) :
              last.forbidden.items[i] = last.value)
          => /\ last.exc = "none"
             /\ leaf.value = last.value
             /\ leaf.allowed_values = last.allowed
             /\ leaf.forbidden_values = last.forbidden
             /\ \A py \in PythonVersions :
                   is_valid(leaf, <<>>, py) = BoolRes(FALSE)

\* a leaf constructed with its value in both lists, given a function that
\* returns True, is reported invalid
C23_Witness ==
    /\ last.op = "is_valid"
    /\ leaf.value = IntV(0)
    /\ leaf.allowed_values = TupleV(<<IntV(0)>>)
    /\ leaf.forbidden_values = TupleV(<<IntV(0)>>)
    /\ leaf.validator_function = FnV(FnTrue)
    /\ last.ret = BoolRes(FALSE)

\* neither None, a type, nor an iterable of types
BadTypes(v) ==
    /\ v.t \notin {"None", "type"}
    /\ ~(v.t = "tuple" /\ \A i \in 1..Len(v.items) : v.items[i].t = "type")

OneParameter ==
    {"GreaterThan", "GreaterThanOrEqualTo", "LessThan", "LessThanOrEqualTo",
     "NotEqual"}
TwoParameters == {"Between", "NotBetween"}

\* a 2-element iterable of a known name and the parameters that name takes:
\* a Number, or an iterable of exactly two Numbers
GoodEntry(e) ==
    /\ e.t = "tuple"
    /\ Len(e.items) = 2
    /\ e.items[1].t = "str"
    /\ e.items[1].s \in OneParameter \cup TwoParameters
    /\ e.items[1].s \in OneParameter => e.items[2].t = "int"
    /\ e.items[1].s \in TwoParameters
          => /\ e.items[2].t = "tuple"
             /\ Len(e.items[2].items) = 2
             /\ \A i \in 1..2 : e.items[2].items[i].t = "int"

\* a non-iterable, or an iterable with an entry that is not a good one
BadValidators(v) ==
    /\ v.t # "None"
    /\ ~(v.t = "tuple" /\ \A i \in 1..Len(v.items) : GoodEntry(v.items[i]))

(***************************************************************************)
(* C24. Constraint mutators reject bad input at assignment: assigning      *)
(* valid_value_types something that is neither None, a type, nor an        *)
(* iterable of types, or assigning validators a non-iterable, an entry     *)
(* that is not a 2-element iterable, an unknown validator name, a          *)
(* one-parameter validator with a non-Number or iterable parameter, or a   *)
(* two-parameter validator whose parameter is not an iterable of exactly   *)
(* two Numbers, raises TypeError immediately and leaves the previously     *)
(* stored constraint unchanged.                                            *)
(***************************************************************************)
C24_MutatorsReject ==
    /\ (last.op = "set_valid_value_types" /\ BadTypes(last.value2))
          => last.exc = "TypeError" /\ leaf = last.old
    /\ (last.op = "set_validators" /\ BadValidators(last.value2))
          => last.exc = "TypeError" /\ leaf = last.old

\* the number of arguments a function takes
Arity(fn) == IF fn.k = "ThreeArgs" THEN 3 ELSE 2

\* None, or a function of exactly two arguments
GoodFunction(v) == v.t = "None" \/ (v.t = "function" /\ Arity(v.fn) = 2)

(***************************************************************************)
(* C28. Assigning validator_function a value that is not a function, or a  *)
(* function that does not take exactly two arguments, raises TypeError and *)
(* leaves the previously stored validator_function unchanged; assigning    *)
(* None or a two-argument function stores it and reading the attribute     *)
(* returns it.                                                             *)
(***************************************************************************)
C28_ValidatorFunctionSetter ==
    last.op = "set_validator_function"
        => IF GoodFunction(last.value2)
           THEN last.exc = "none" /\ leaf.validator_function = last.value2
           ELSE last.exc = "TypeError" /\ leaf = last.old

\* every setting has a value
AllValued(t) == \A l \in LeafLocs(t) : Has(EntryAt(t, l), "value")

\* every setting has a validator, and it accepts everything
NoValidators(t) ==
    \A l \in LeafLocs(t) :
        Has(EntryAt(t, l), "validator") /\ EntryAt(t, l).validator = ValTrue

\* the nested mapping v has exactly one key per child of t at every level,
\* mapped to the value of a leaf and to a mapping for a node
Mirrors(t, v) ==
    /\ KeyLocs(v, <<>>) = LocsOf(t, <<>>) \ {<<>>}
    /\ \A l \in LeafLocs(t) : Supplied(v, l) = <<EntryAt(t, l).value>>
    /\ \A l \in NodeLocs(t) \ {<<>>} :
          Supplied(v, l) # <<>> /\ Supplied(v, l)[1].t = "dict"

\* values has the shape of the tree t: a key per child at every level, a
\* mapping for a node and a plain value for a leaf
ShapeOf(values, t) ==
    /\ KeyLocs(values, <<>>) = LocsOf(t, <<>>) \ {<<>>}
    /\ \A l \in NodeLocs(t) \ {<<>>} : Supplied(values, l)[1].t = "dict"
    /\ \A l \in LeafLocs(t) : Supplied(values, l)[1].t # "dict"

(***************************************************************************)
(* C25. extract_values in nested form mirrors the tree: the result has     *)
(* exactly one key per child at every level, mapped to the leaf's value    *)
(* for a Leaf and to the nested mapping of its children for a Node;        *)
(* consequently, on a tree without validators, after set_values(values)    *)
(* with values of the tree's shape the call returns True and               *)
(* extract_values() equals values.                                         *)
(***************************************************************************)
C25_ExtractMirrors ==
    /\ (last.op = "extract_values" /\ AllValued(tree))
          => last.ret.kind = "dict" /\ Mirrors(tree, last.ret.v)
    /\ (/\ last.op = "set_values"
        /\ ~last.force
        /\ AllValued(pre)
        /\ NoValidators(pre)
        /\ ShapeOf(last.values, pre))
          => /\ last.ret
             /\ extract_values(tree) = [kind |-> "dict", v |-> last.values]

\* set_values({'a': MaxVal, 'b': {'a': MaxVal}}) on {a: 0, b: {a: 0}}
C25_Witness ==
    /\ last.op = "set_values"
    /\ pre = TreeInit(Plain(0, 0))
    /\ last.values = (na :> IntV(MaxVal)) @@ (nb :> DictV(na :> IntV(MaxVal)))
    /\ last.ret
    /\ extract_values(tree).v = last.values

\* two successive forced calls of set_values with the same values
SameForcedCallTwice ==
    /\ last.op = "set_values" /\ last.force
    /\ last'.op = "set_values" /\ last'.force
    /\ last'.values = last.values

(***************************************************************************)
(* C26. Idempotence of forced bulk apply: from any tree, calling           *)
(* set_values(values, force=True) twice with the same values leaves the    *)
(* same leaf values (and returns the same boolean the second time) as      *)
(* calling it once.                                                        *)
(***************************************************************************)
C26_ForcedIdempotent ==
    [][SameForcedCallTwice
          => /\ LeafValues(tree') = LeafValues(tree)
             /\ last'.ret = last.ret]_vars

RECURSIVE MalformedUnder(_, _)
\* the malformed entries at and below the entry node found at loc: an entry
\* that is not a dict, a node whose 'children' is not a mapping, a setting
\* without 'value' or without 'validator'
MalformedUnder(node, loc) ==
    IF NotADict(node) THEN {loc}
    ELSE IF Has(node, "children")
    THEN IF ~IsDict(node.children) THEN {loc}
         ELSE UNION {MalformedUnder(node.children.map[k], Append(loc, k)) :
                       k \in DOMAIN node.children.map}
    ELSE IF ~Has(node, "value") \/ ~Has(node, "validator") THEN {loc}
    ELSE {}

(***************************************************************************)
(* C27. Structural malformation is reported at the entry's own path:       *)
(* find_invalids lists a Node whose children container is not a mapping,   *)
(* a child entry that is not a well-formed node, and a Leaf missing its    *)
(* value or validator field, each under its own full path (parent path,    *)
(* separator, child name), for entries at every depth and not only         *)
(* directly under the root.                                                *)
(***************************************************************************)
C27_MalformedAtOwnPath ==
    (last.op = "find_invalids" /\ last.ret.kind = "list")
        => \A l \in MalformedUnder(EntryAt(tree, PathLoc(last.path)),
                                   PathLoc(last.path)) :
              CanonPath(l) \in Range(last.ret.paths)

\* the tree t with value written to the setting at loc
WithValue(t, loc, value) ==
    ReplaceAt(t, loc, SetKey(EntryAt(t, loc), "value", value))

\* a non-forced single-leaf set that reached a setting of a tree for which
\* check_values() was False
SetOnInvalidTree ==
    /\ last.op \in {"set_setting_by_path", "setitem"}
    /\ ~last.force
    /\ last.exc = "none"
    /\ ~check_values(pre)

(***************************************************************************)
(* C29. Lock-out on an already-invalid tree: if check_values() is False    *)
(* before a set_setting_by_path(path, value, force=False) call, the new    *)
(* value is kept only when it makes the whole tree valid; otherwise the    *)
(* leaf is reverted and False is returned even when the new value          *)
(* satisfies that leaf's own validator, so while some other leaf stays     *)
(* invalid no non-forced single-leaf set changes any value.                *)
(***************************************************************************)
C29_LockOut ==
    SetOnInvalidTree
        => IF TreeValid(WithValue(pre, PathLoc(last.path), last.value))
           THEN /\ last.ret
                /\ LeafValues(tree)
                      = LeafValues(WithValue(pre, PathLoc(last.path),
                                             last.value))
           ELSE /\ ~last.ret
                /\ LeafValues(tree) = LeafValues(pre)

\* /b/b goes from MaxVal to 0, which its own validator accepts, while /a
\* stays above /b/a: the set is reverted
C29_Witness ==
    /\ SetOnInvalidTree
    /\ pre = TreeInit(Nested(MaxVal, 0, MaxVal))
    /\ last.path = <<sep, "b", sep, "b">>
    /\ last.value = IntV(0)
    /\ ~last.ret
    /\ tree = pre

QueryOps ==
    {"get", "list_children", "list_all", "type_path", "diff",
     "extract_values", "find_invalids", "check_values"}

====
